---------------------------- MODULE Spec2Model ----------------------------
(***************************************************************************)
(* A model of the OpsPilot orchestrator: the DatabaseService (in-memory    *)
(* and PostgreSQL backends), the IncidentManager built on it, the          *)
(* WatcherAgent's deduplication, and the orchestrator's alert handler and  *)
(* HTTP surface.                                                           *)
(*                                                                         *)
(* JavaScript values are modelled as follows.  An object is a function     *)
(* from the keys it has to their values; Object.assign is function         *)
(* override.  A string-valued field holds a string, with "undefined" and   *)
(* "null" standing for the two JavaScript non-values; an object-valued     *)
(* field (labels, annotations, the triage and fix attachments) holds an    *)
(* object, with UndefObj and NullObj standing for undefined and null.  A   *)
(* template literal `a${b}` is the tuple <<"a", b>>.                       *)
(***************************************************************************)
EXTENDS Naturals, Sequences, FiniteSets, TLC

VARIABLES
  database,        \* the DatabaseService: pool, inMemoryStorage, the pg tables
  now,             \* the wall clock read by new Date() and CURRENT_TIMESTAMP
  uuid,            \* the number of uuidv4() values handed out so far
  lastCall,        \* the last IncidentManager call made by a direct caller, with its outcome
  held,            \* per incident id: the sequence of status values written to it
  calls,           \* number of IncidentManager calls made by the direct caller
  processedAlerts, \* WatcherAgent.processedAlerts
  polling,         \* WatcherAgent.pollInterval is set
  tasks,           \* the running 'alert' listeners and approve requests
  responses,       \* HTTP responses sent so far (a sequence)
  memoryStore      \* TriageAgent.memoryStore

vars == <<database, now, uuid, lastCall, held, calls, processedAlerts, polling, tasks, responses,
          memoryStore>>

(***************************************************************************)
(* Bounds of the model.                                                    *)
(***************************************************************************)
MaxIncidents == 2
MaxCalls == 3
MaxClock == 1
MaxTasks == 2
MaxRequests == 1

(***************************************************************************)
(* JavaScript values.                                                      *)
(***************************************************************************)
Undef == "undefined"
Null == "null"
UndefObj == [js |-> "undefined"]
NullObj == [js |-> "null"]
EmptyObj == <<>>

Has(o, k) == k \in DOMAIN o
\* o.k for a string-valued field
GetS(o, k) == IF k \in DOMAIN o THEN o[k] ELSE Undef
\* o.k for an object-valued field
GetO(o, k) == IF k \in DOMAIN o THEN o[k] ELSE UndefObj
\* truthiness of a string-valued field
TruthyS(v) == v \notin {Undef, Null, ""}
\* truthiness of an object-valued field
TruthyO(v) == v \notin {UndefObj, NullObj}
\* a || b on strings
OrS(a, b) == IF TruthyS(a) THEN a ELSE b
\* a || b on objects
OrO(a, b) == IF TruthyO(a) THEN a ELSE b
\* a ?? b on objects
NullishO(a, b) == IF a \in {UndefObj, NullObj} THEN b ELSE a
\* Object.assign({}, o, p) / { ...o, ...p }
Assign(o, p) == [k \in DOMAIN o \cup DOMAIN p |-> IF k \in DOMAIN p THEN p[k] ELSE o[k]]
\* delete o.k
Delete(o, k) == [j \in DOMAIN o \ {k} |-> o[j]]
\* alert.labels?.k
LabelOf(alert, k) == IF TruthyO(GetO(alert, "labels")) THEN GetS(alert["labels"], k) ELSE Undef
\* alert.annotations?.k
AnnotationOf(alert, k) ==
  IF TruthyO(GetO(alert, "annotations")) THEN GetS(alert["annotations"], k) ELSE Undef

\* the keys whose values are objects
ObjectKeys ==
  {"labels", "annotations", "triage_result", "triageResult", "fix_result", "fixResult",
   "alert", "metadata", "hypothesis", "pullRequest", "resolution", "metrics", "jiraTicket"}

(***************************************************************************)
(* JSON.stringify and JSON.parse (the driver parses a JSONB column on the  *)
(* way out).  The text of an object is modelled as the set of its          *)
(* key/value pairs; a key whose value is undefined is left out of the      *)
(* text, as JSON.stringify leaves it out.  StructuredKeys are the keys     *)
(* whose values are numbers or arrays and so are never undefined.          *)
(***************************************************************************)
StructuredKeys ==
  {"confidence", "suggestedActions", "appliedFixes", "evidence", "success", "runbooks",
   "recentChanges", "results", "id", "timestamp", "created_at", "updated_at"}

\* o[k] is undefined
UndefAt(o, k) ==
  IF k \in StructuredKeys THEN FALSE
  ELSE IF k \in ObjectKeys THEN o[k] = UndefObj
  ELSE o[k] = Undef

RECURSIVE JSONStringify(_)
JSONStringify(o) ==
  IF o = NullObj THEN <<"null", {}>>
  ELSE <<"object",
         {<<k, IF k \in ObjectKeys THEN JSONStringify(o[k]) ELSE o[k]>> :
            k \in {j \in DOMAIN o : ~UndefAt(o, j)}}>>

RECURSIVE JSONParse(_)
JSONParse(s) ==
  IF s[1] = "null" THEN NullObj
  ELSE [k \in {p[1] : p \in s[2]} |->
          LET v == (CHOOSE p \in s[2] : p[1] = k)[2]
          IN IF k \in ObjectKeys THEN JSONParse(v) ELSE v]

\* what a JSONB column gives back for a value written through JSON.stringify
\* (undefined is bound as SQL NULL and read back as null)
JSONB(o) == IF o = UndefObj THEN NullObj ELSE JSONParse(JSONStringify(o))

(***************************************************************************)
(* Sequences.                                                              *)
(***************************************************************************)
RECURSIVE SelectSeqBy(_, _, _)
\* seq.filter(e => e[k] = v), for a string- or tuple-valued key k
SelectSeqBy(seq, k, v) ==
  IF seq = <<>> THEN <<>>
  ELSE (IF Head(seq)[k] = v THEN <<Head(seq)>> ELSE <<>>) \o SelectSeqBy(Tail(seq), k, v)

RECURSIVE InsertAsc(_, _)
\* e put into the created_at-ascending sequence sorted, after its equals
InsertAsc(sorted, e) ==
  IF sorted = <<>> THEN <<e>>
  ELSE IF e["created_at"] < Head(sorted)["created_at"] THEN <<e>> \o sorted
       ELSE <<Head(sorted)>> \o InsertAsc(Tail(sorted), e)

RECURSIVE SortAsc(_)
\* seq.sort((a, b) => a.created_at - b.created_at): Array.prototype.sort is stable
SortAsc(seq) ==
  IF seq = <<>> THEN <<>>
  ELSE InsertAsc(SortAsc(SubSeq(seq, 1, Len(seq) - 1)), seq[Len(seq)])

\* seq.sort((a, b) => b.created_at - a.created_at): each element goes to the
\* place after the elements created later and after its equals that precede
\* it in seq (the sort is stable)
SortDesc(seq) ==
  LET n == Len(seq)
      place == [i \in 1..n |->
                  1 + Cardinality({j \in 1..n :
                        \/ seq[j]["created_at"] > seq[i]["created_at"]
                        \/ seq[j]["created_at"] = seq[i]["created_at"] /\ j < i})]
  IN [p \in 1..n |-> seq[CHOOSE i \in 1..n : place[i] = p]]

Range(seq) == {seq[i] : i \in 1..Len(seq)}

(***************************************************************************)
(* DatabaseService.  Every operation is an operator from the service's     *)
(* state db (and the clock reading t) to the new state, the value          *)
(* returned (ret) and the error thrown (threw, "" when none).              *)
(***************************************************************************)
InitialStorage == [incidents |-> <<>>, timeline |-> <<>>, relations |-> <<>>]

InitialDatabase(pool) ==
  [pool |-> pool, inMemoryStorage |-> InitialStorage, pg |-> InitialStorage]

\* the table the service reads and writes: !this.pool selects inMemoryStorage
Backend(db) == IF db.pool = "null" THEN "inMemoryStorage" ELSE "pg"
Storage(db) == db[Backend(db)]

HasIncident(db, id) == \E i \in 1..Len(Storage(db).incidents) : Storage(db).incidents[i]["id"] = id
IndexOfIncident(db, id) ==
  CHOOSE i \in 1..Len(Storage(db).incidents) : Storage(db).incidents[i]["id"] = id
StoredIncident(db, id) == Storage(db).incidents[IndexOfIncident(db, id)]

Ok(db, ret) == [db |-> db, ret |-> ret, threw |-> ""]
Threw(db, err) == [db |-> db, ret |-> UndefObj, threw |-> err]

\* a query parameter as PostgreSQL stores it: undefined is sent as NULL
SqlParam(v) == IF v = Undef THEN Null ELSE v

\* the incidents columns of the table initializeTables creates
IncidentColumns ==
  {"alert_id", "summary", "description", "severity", "status",
   "labels", "annotations", "triage_result", "fix_result"}

DbCreateIncident(db, data, t) ==
  IF db.pool = "null"
  THEN LET incident == Assign(data, [status     |-> OrS(GetS(data, "status"), "open"),
                                     created_at |-> t,
                                     updated_at |-> t])
       IN Ok([db EXCEPT !.inMemoryStorage.incidents = Append(@, incident)], incident)
  ELSE LET row == [id            |-> data["id"],
                   alert_id      |-> SqlParam(GetS(data, "alert_id")),
                   summary       |-> SqlParam(GetS(data, "summary")),
                   description   |-> SqlParam(GetS(data, "description")),
                   severity      |-> SqlParam(GetS(data, "severity")),
                   status        |-> OrS(GetS(data, "status"), "open"),
                   labels        |-> JSONB(OrO(GetO(data, "labels"), EmptyObj)),
                   annotations   |-> JSONB(OrO(GetO(data, "annotations"), EmptyObj)),
                   triage_result |-> NullObj,
                   fix_result    |-> NullObj,
                   created_at    |-> t,
                   updated_at    |-> t]
       IN Ok([db EXCEPT !.pg.incidents = Append(@, row)], row)

\* updateIncident's key normalization (lines 435-443)
NormalizeUpdates(updates) ==
  LET n1 == IF Has(updates, "triageResult") /\ ~Has(updates, "triage_result")
            THEN Delete(Assign(updates, [triage_result |-> updates["triageResult"]]), "triageResult")
            ELSE updates
      n2 == IF Has(n1, "fixResult") /\ ~Has(n1, "fix_result")
            THEN Delete(Assign(n1, [fix_result |-> n1["fixResult"]]), "fixResult")
            ELSE n1
  IN n2

\* the in-memory branch's mirror of snake_case back to camelCase (lines 455-462)
MirrorToCamel(normalized) ==
  LET a1 == IF Has(normalized, "triage_result")
            THEN Assign(normalized, [triageResult |-> normalized["triage_result"]])
            ELSE normalized
      a2 == IF Has(a1, "fix_result")
            THEN Assign(a1, [fixResult |-> a1["fix_result"]])
            ELSE a1
  IN a2

\* the value bound to a column by the UPDATE: objects go through JSON.stringify
SqlValue(k, v) == IF k \in ObjectKeys THEN JSONB(v) ELSE SqlParam(v)

DbUpdateIncident(db, id, updates, t) ==
  LET normalized == NormalizeUpdates(updates) IN
  IF db.pool = "null"
  THEN IF ~HasIncident(db, id) THEN Ok(db, NullObj)
       ELSE LET i == IndexOfIncident(db, id)
                incident == Assign(Assign(db.inMemoryStorage.incidents[i],
                                          MirrorToCamel(normalized)),
                                   [updated_at |-> t])
            IN Ok([db EXCEPT !.inMemoryStorage.incidents[i] = incident], incident)
  ELSE IF ~HasIncident(db, id) THEN Ok(db, UndefObj)
       ELSE LET i == IndexOfIncident(db, id)
                fields == {k \in DOMAIN normalized : k # "id" /\ k \in IncidentColumns}
                set == [k \in fields |-> SqlValue(k, normalized[k])]
                row == Assign(Assign(db.pg.incidents[i], set), [updated_at |-> t])
            IN Ok([db EXCEPT !.pg.incidents[i] = row], row)

DbGetIncident(db, id) ==
  IF HasIncident(db, id) THEN Ok(db, StoredIncident(db, id)) ELSE Ok(db, UndefObj)

DbAddTimelineEvent(db, incidentId, eventType, eventData, t) ==
  IF db.pool = "null"
  THEN LET event == [id          |-> Len(db.inMemoryStorage.timeline) + 1,
                     incident_id |-> incidentId,
                     event_type  |-> eventType,
                     event_data  |-> eventData,
                     created_at  |-> t]
       IN Ok([db EXCEPT !.inMemoryStorage.timeline = Append(@, event)], event)
  ELSE \* incident_timeline.incident_id REFERENCES incidents(id)
       IF ~HasIncident(db, incidentId) THEN Threw(db, "foreign_key_violation")
       ELSE LET row == [id          |-> Len(db.pg.timeline) + 1,
                        incident_id |-> incidentId,
                        event_type  |-> eventType,
                        event_data  |-> JSONB(eventData),
                        created_at  |-> t]
            IN Ok([db EXCEPT !.pg.timeline = Append(@, row)], row)

\* getTimeline returning the newest event first
DbGetTimelineNewestFirst(db, incidentId) ==
  SortDesc(SelectSeqBy(Storage(db).timeline, "incident_id", incidentId))

\* both branches order by created_at ascending; rows of equal created_at keep
\* the order in which they were appended
DbGetTimeline(db, incidentId) ==
  SortAsc(SelectSeqBy(Storage(db).timeline, "incident_id", incidentId))

DbAddMemoryRelation(db, data, t) ==
  IF db.pool = "null"
  THEN LET relation == Assign(Assign([id |-> Len(db.inMemoryStorage.relations) + 1], data),
                              [created_at |-> t])
       IN Ok([db EXCEPT !.inMemoryStorage.relations = Append(@, relation)], relation)
  ELSE LET row == [id            |-> Len(db.pg.relations) + 1,
                   entity_type   |-> data["entity_type"],
                   entity_id     |-> data["entity_id"],
                   related_type  |-> data["related_type"],
                   \* (an alert id is a string or undefined, an incident id never is)
                   related_id    |-> IF data["related_type"] = "alert"
                                     THEN SqlParam(data["related_id"])
                                     ELSE data["related_id"],
                   relationship  |-> data["relationship"],
                   metadata      |-> JSONB(OrO(GetO(data, "metadata"), EmptyObj)),
                   created_at    |-> t]
       IN Ok([db EXCEPT !.pg.relations = Append(@, row)], row)

(***************************************************************************)
(* IncidentManager.                                                        *)
(***************************************************************************)
\* `inc-${uuidv4()}`, the n-th uuid being n
IncidentId(n) == <<"inc-", n>>

\* the incident object createIncident builds (lines 10-19)
NewIncident(alert, incidentId) ==
  [id          |-> incidentId,
   alert_id    |-> OrS(GetS(alert, "id"), GetS(alert, "fingerprint")),
   summary     |-> OrS(GetS(alert, "summary"), OrS(LabelOf(alert, "alertname"), "Unknown Alert")),
   description |-> OrS(GetS(alert, "description"), ""),
   severity    |-> OrS(GetS(alert, "severity"), OrS(LabelOf(alert, "severity"), "warning")),
   status      |-> "open",
   labels      |-> OrO(GetO(alert, "labels"), EmptyObj),
   annotations |-> OrO(GetO(alert, "annotations"), EmptyObj)]

IncidentCreatedEvent(alert) == [alert |-> alert, source |-> "prometheus"]

TriggeredByRelation(alert, incidentId, t) ==
  [entity_type  |-> "incident",
   entity_id    |-> incidentId,
   related_type |-> "alert",
   related_id   |-> OrS(GetS(alert, "id"), GetS(alert, "fingerprint")),
   relationship |-> "triggered_by",
   metadata     |-> [timestamp |-> t]]

\* { k: o.k, ... } for the keys o has
Pick(o, keys) == [k \in keys \cap DOMAIN o |-> o[k]]

(***************************************************************************)
(* A call of the store is a record naming the operation and its            *)
(* arguments; Exec makes one call, RunCalls makes a sequence of them in    *)
(* order, as a chain of awaits does, and stops at the first that throws.   *)
(***************************************************************************)
CreateCall(data) == [call |-> "createIncident", data |-> data]
UpdateCall(id, updates) == [call |-> "updateIncident", id |-> id, updates |-> updates]
TimelineCall(incidentId, eventType, eventData) ==
  [call |-> "addTimelineEvent", incidentId |-> incidentId,
   eventType |-> eventType, eventData |-> eventData]
RelationCall(data) == [call |-> "addMemoryRelation", data |-> data]

Exec(db, c, t) ==
  CASE c.call = "createIncident"    -> DbCreateIncident(db, c.data, t)
    [] c.call = "updateIncident"    -> DbUpdateIncident(db, c.id, c.updates, t)
    [] c.call = "addTimelineEvent"  -> DbAddTimelineEvent(db, c.incidentId, c.eventType, c.eventData, t)
    [] c.call = "addMemoryRelation" -> DbAddMemoryRelation(db, c.data, t)

RECURSIVE RunCalls(_, _, _)
RunCalls(r, cs, t) ==
  IF cs = <<>> \/ r.threw # "" THEN r
  ELSE RunCalls(Exec(r.db, Head(cs), t), Tail(cs), t)

\* the outcome r of a chain of calls, returning ret when none threw
Returning(r, ret) == IF r.threw # "" THEN r ELSE Ok(r.db, ret)

\* a createIncident that stops before its addMemoryRelation call
CreateIncidentCallsNoRelation(alert, incidentId, t) ==
  << CreateCall(NewIncident(alert, incidentId)),
     TimelineCall(incidentId, <<"incident_created">>, IncidentCreatedEvent(alert)) >>

\* createIncident (lines 7-42): its store calls in order
CreateIncidentCalls(alert, incidentId, t) ==
  << CreateCall(NewIncident(alert, incidentId)),
     TimelineCall(incidentId, <<"incident_created">>, IncidentCreatedEvent(alert)),
     RelationCall(TriggeredByRelation(alert, incidentId, t)) >>

\* createIncident returns the value of its first store call
CreateIncident(db, alert, incidentId, t) ==
  LET cs == CreateIncidentCalls(alert, incidentId, t)
      r1 == Exec(db, cs[1], t)
  IN Returning(RunCalls(r1, Tail(cs), t), r1.ret)

\* the event updateIncident appends for a status (lines 48-54); incident is the
\* value DatabaseService.updateIncident returned
StatusChangedEvent(incident, updates, t) ==
  [previousStatus |-> incident["status"],
   newStatus      |-> updates["status"],
   timestamp      |-> t]

TriagedEvent(updates) == Pick(updates["triageResult"], {"hypothesis", "suggestedActions"})

FixAppliedEvent(updates) ==
  Pick(updates["fixResult"], {"pullRequest", "appliedFixes", "success"})

\* updateIncident (lines 48-69): the timeline calls that follow the store's
\* update, given the value the update returned.  Reading incident.status of a
\* null or undefined incident throws a TypeError.
NotFound(incident) == incident \in {NullObj, UndefObj}

UpdateThrows(incident, updates) == TruthyS(GetS(updates, "status")) /\ NotFound(incident)

UpdateIncidentCalls(incident, id, updates, t) ==
  (IF TruthyS(GetS(updates, "status"))
   THEN <<TimelineCall(id, <<"status_changed_to_", updates["status"]>>,
                       StatusChangedEvent(incident, updates, t))>>
   ELSE <<>>)
  \o (IF TruthyO(GetO(updates, "triageResult"))
      THEN <<TimelineCall(id, <<"triaged">>, TriagedEvent(updates))>>
      ELSE <<>>)
  \o (IF TruthyO(GetO(updates, "fixResult"))
      THEN <<TimelineCall(id, <<"fix_applied">>, FixAppliedEvent(updates))>>
      ELSE <<>>)

\* updateIncident (lines 44-72)
UpdateIncident(db, id, updates, t) ==
  LET r1 == Exec(db, UpdateCall(id, updates), t)
  IN IF r1.threw # "" THEN r1
     ELSE IF UpdateThrows(r1.ret, updates) THEN Threw(r1.db, "TypeError")
     ELSE Returning(RunCalls(r1, UpdateIncidentCalls(r1.ret, id, updates, t), t), r1.ret)

\* getIncident (lines 74-95): the stored incident with both spellings of the
\* attachments filled in.  (In-memory the assignments are made on the stored
\* object itself; they add no information to it, a key holding undefined
\* reading the same as a key that is absent.)
WithBothSpellings(incident) ==
  LET tr0 == GetO(incident, "triage_result")
      fx0 == GetO(incident, "fix_result")
      tr1 == IF tr0 = UndefObj /\ GetO(incident, "triageResult") # UndefObj
             THEN incident["triageResult"] ELSE tr0
      fx1 == IF fx0 = UndefObj /\ GetO(incident, "fixResult") # UndefObj
             THEN incident["fixResult"] ELSE fx0
  IN Assign(incident,
            [triage_result |-> tr1,
             fix_result    |-> fx1,
             triageResult  |-> NullishO(tr1, GetO(incident, "triageResult")),
             fixResult     |-> NullishO(fx1, GetO(incident, "fixResult"))])

GetIncident(db, id) ==
  LET r == DbGetIncident(db, id)
  IN IF r.ret # UndefObj THEN Ok(db, WithBothSpellings(r.ret)) ELSE r

GetTimeline(db, incidentId) == DbGetTimeline(db, incidentId)

\* getRelations (lines 657-675): the edges that have the entity at either
\* end, newest first
DbGetRelations(db, entityType, entityId) ==
  SortDesc(SelectSeq(Storage(db).relations,
                     LAMBDA r : \/ r["entity_type"] = entityType /\ r["entity_id"] = entityId
                                \/ r["related_type"] = entityType /\ r["related_id"] = entityId))

\* getRelatedIncidents (lines 128-140): the related_id of every edge found
\* whose related_type is incident, each looked up with getIncident
GetRelatedIncidents(db, incidentId) ==
  LET relations == DbGetRelations(db, "incident", incidentId)
      ends == SelectSeq(relations, LAMBDA r : r["related_type"] = "incident")
      relatedIds == [i \in 1..Len(ends) |-> ends[i]["related_id"]]
      incidents == [i \in 1..Len(relatedIds) |-> GetIncident(db, relatedIds[i]).ret]
  IN SelectSeq(incidents, LAMBDA incident : TruthyO(incident))

\* linkIncidents (lines 142-151): one edge from incidentId1 to incidentId2
LinkRelation(incidentId1, incidentId2, relationship, t) ==
  [entity_type  |-> "incident",
   entity_id    |-> incidentId1,
   related_type |-> "incident",
   related_id   |-> incidentId2,
   relationship |-> relationship,
   metadata     |-> [timestamp |-> t]]

LinkIncidents(db, incidentId1, incidentId2, relationship, t) ==
  Returning(DbAddMemoryRelation(db, LinkRelation(incidentId1, incidentId2, relationship, t), t),
            UndefObj)

\* resolveIncident (lines 166-181)
ResolveUpdates(resolution) == [status |-> "resolved", resolution |-> JSONStringify(resolution)]

ResolveIncident(db, id, resolution, t) ==
  LET r1 == UpdateIncident(db, id, ResolveUpdates(resolution), t)
  IN Returning(RunCalls(r1, <<TimelineCall(id, <<"resolved">>,
                                           [resolution |-> resolution, timestamp |-> t])>>, t),
               r1.ret)

\* timeline.find(e => e.event_type === eventType): the first such event
FindEvent(timeline, eventType) ==
  LET found == SelectSeq(timeline, LAMBDA e : e["event_type"] = eventType)
  IN IF found = <<>> THEN UndefObj ELSE Head(found)

\* new Date(created_at).getTime(): the clock counts seconds
GetTime(t) == t * 1000

\* calculateTimeToDetect (lines 225-233)
CalculateTimeToDetect(incident, timeline) ==
  LET createdEvent == FindEvent(timeline, <<"incident_created">>)
      diff == IF createdEvent = UndefObj THEN 0
              ELSE GetTime(createdEvent["created_at"]) - GetTime(incident["created_at"])
  IN (IF diff < 0 THEN 0 - diff ELSE diff) \div 1000

\* calculateTimeToTriage measuring up to the last triaged event
CalculateTimeToTriageLast(timeline) ==
  LET createdEvent == FindEvent(timeline, <<"incident_created">>)
      triaged == SelectSeq(timeline, LAMBDA e : e["event_type"] = <<"triaged">>)
  IN IF createdEvent = UndefObj \/ triaged = <<>> THEN 0
     ELSE (GetTime(triaged[Len(triaged)]["created_at"]) - GetTime(createdEvent["created_at"]))
            \div 1000

\* calculateTimeToTriage (lines 235-245)
CalculateTimeToTriage(timeline) ==
  LET createdEvent == FindEvent(timeline, <<"incident_created">>)
      triageEvent == FindEvent(timeline, <<"triaged">>)
  IN IF createdEvent = UndefObj \/ triageEvent = UndefObj THEN 0
     ELSE (GetTime(triageEvent["created_at"]) - GetTime(createdEvent["created_at"])) \div 1000

\* calculateTimeToResolve (lines 247-257)
CalculateTimeToResolve(timeline) ==
  LET createdEvent == FindEvent(timeline, <<"incident_created">>)
      resolvedEvent == FindEvent(timeline, <<"resolved">>)
  IN IF createdEvent = UndefObj \/ resolvedEvent = UndefObj THEN 0
     ELSE (GetTime(resolvedEvent["created_at"]) - GetTime(createdEvent["created_at"])) \div 1000

\* generateSummary (lines 201-223): the values the text is built from
GenerateSummary(incident, timeline) ==
  [id |-> incident["id"], summary |-> incident["summary"], severity |-> incident["severity"],
   status |-> incident["status"],
   created |-> incident["created_at"], updated |-> incident["updated_at"],
   events |-> [i \in 1..Len(timeline) |-> <<timeline[i]["created_at"], timeline[i]["event_type"]>>],
   rootCause |-> IF TruthyO(GetO(incident, "triage_result"))
                    /\ TruthyO(GetO(incident["triage_result"], "hypothesis"))
                 THEN OrS(GetS(incident["triage_result"]["hypothesis"], "primaryCause"), "Unknown")
                 ELSE "Unknown",
   resolved |-> /\ TruthyO(GetO(incident, "fix_result"))
                /\ "success" \in DOMAIN incident["fix_result"]
                /\ incident["fix_result"]["success"] = TRUE]

\* generateReport (lines 183-199); generateSummary reads incident.id, which
\* throws when getIncident found nothing
GenerateReport(db, incidentId) ==
  LET incident == GetIncident(db, incidentId).ret
      timeline == GetTimeline(db, incidentId)
      relatedIncidents == GetRelatedIncidents(db, incidentId)
  IN IF ~TruthyO(incident) THEN Threw(db, "TypeError")
     ELSE Ok(db, [incident |-> incident, timeline |-> timeline,
                  relatedIncidents |-> relatedIncidents,
                  summary |-> GenerateSummary(incident, timeline),
                  metrics |-> [timeToDetect |-> CalculateTimeToDetect(incident, timeline),
                               timeToTriage |-> CalculateTimeToTriage(timeline),
                               timeToResolve |-> CalculateTimeToResolve(timeline)]])

(***************************************************************************)
(* TriageAgent.  Confidence is counted in hundredths.  What includes() and *)
(* toLowerCase() give on a string is read from the tables below.           *)
(***************************************************************************)
ToLowerCase(str) ==
  CASE str = "HighMemoryUsage" -> "highmemoryusage"
    [] str = "HighCPULoad" -> "highcpuload"
    [] str = "HighMemoryAndCPU" -> "highmemoryandcpu"
    [] str = "ServiceDown" -> "servicedown"
    [] str = "DiskFull" -> "diskfull"
    [] str = "Restart affected service or scale horizontally"
         -> "restart affected service or scale horizontally"
    [] str = "Optimize CPU-intensive operations or scale up"
         -> "optimize cpu-intensive operations or scale up"
    [] str = "Immediate investigation and potential rollback"
         -> "immediate investigation and potential rollback"
    [] str = "Identify memory-intensive processes" -> "identify memory-intensive processes"
    [] str = "Check service health endpoints" -> "check service health endpoints"
    [] str = "Check current connection pool metrics" -> "check current connection pool metrics"
    [] str = "Increase memory limit" -> "increase memory limit"
    [] str = "Investigate logs" -> "investigate logs"
    [] OTHER -> str

\* str.includes(part), for the parts the agents look for: "Memory" and "CPU"
\* in alert names, the runbook keywords, and "memory", "scale", "timeout" in
\* suggested fixes
Contains(str, part) ==
  CASE str = "HighMemoryUsage" -> part \in {"Memory"}
    [] str = "HighCPULoad" -> part \in {"CPU"}
    [] str = "HighMemoryAndCPU" -> part \in {"Memory", "CPU"}
    [] str = "highmemoryandcpu" -> part \in {"memory"}
    [] str = "highmemoryusage" -> part \in {"memory"}
    [] str = "servicedown" -> part \in {"service", "down"}
    [] str = "restart affected service or scale horizontally" -> part \in {"service", "scale"}
    [] str = "optimize cpu-intensive operations or scale up" -> part \in {"scale"}
    [] str = "identify memory-intensive processes" -> part \in {"memory"}
    [] str = "check service health endpoints" -> part \in {"service"}
    [] str = "check current connection pool metrics" -> part \in {"connection", "pool"}
    [] str = "increase memory limit" -> part \in {"memory"}
    [] OTHER -> FALSE

\* the mock runbooks of searchRunbooks (lines 192-226): id, title, keywords, first step
MockRunbooks ==
  << [id |-> "rb-001", title |-> "High Memory Usage Mitigation",
      keywords |-> {"memory", "oom", "resource"},
      firstStep |-> "Identify memory-intensive processes"],
     [id |-> "rb-002", title |-> "Service Unavailable Response",
      keywords |-> {"service", "unavailable", "503", "down"},
      firstStep |-> "Check service health endpoints"],
     [id |-> "rb-003", title |-> "Database Connection Pool Exhaustion",
      keywords |-> {"database", "connection", "pool", "timeout"},
      firstStep |-> "Check current connection pool metrics"] >>

RECURSIVE FilterRunbooks(_, _)
FilterRunbooks(rbs, keywords) ==
  IF rbs = <<>> THEN <<>>
  ELSE (IF \E kw \in Head(rbs).keywords : \E k \in keywords : Contains(ToLowerCase(k), kw)
        THEN <<Head(rbs)>> ELSE <<>>) \o FilterRunbooks(Tail(rbs), keywords)

\* searchRunbooks (lines 189-233) on the keywords triageAlert collects (lines 90-94)
SearchRunbooks(alert) ==
  FilterRunbooks(MockRunbooks,
                 {k \in {LabelOf(alert, "alertname"), LabelOf(alert, "service"),
                         LabelOf(alert, "component")} : TruthyS(k)})

Min(a, b) == IF a < b THEN a ELSE b

\* the rule by alert type with the CPU test made first
BaseHypothesisCPUFirst(alert) ==
  IF Contains(LabelOf(alert, "alertname"), "CPU")
  THEN [primaryCause |-> "High CPU utilization", confidence |-> 75,
        evidence |-> << <<"Alert name contains \"CPU\"">> >>,
        suggestedFix |-> "Optimize CPU-intensive operations or scale up"]
  ELSE IF Contains(LabelOf(alert, "alertname"), "Memory")
  THEN [primaryCause |-> "Memory exhaustion or leak", confidence |-> 80,
        evidence |-> << <<"Alert name contains \"Memory\"">> >>,
        suggestedFix |-> "Restart affected service or scale horizontally"]
  ELSE IF GetS(alert, "severity") = "critical"
  THEN [primaryCause |-> "Service outage or critical failure", confidence |-> 70,
        evidence |-> << <<"Alert severity is critical">> >>,
        suggestedFix |-> "Immediate investigation and potential rollback"]
  ELSE [primaryCause |-> "Unknown", confidence |-> 0, evidence |-> <<>>, suggestedFix |-> ""]

\* generateHypothesis, the rule by alert type (lines 238-261)
BaseHypothesis(alert) ==
  IF Contains(LabelOf(alert, "alertname"), "Memory")
  THEN [primaryCause |-> "Memory exhaustion or leak", confidence |-> 80,
        evidence |-> << <<"Alert name contains \"Memory\"">> >>,
        suggestedFix |-> "Restart affected service or scale horizontally"]
  ELSE IF Contains(LabelOf(alert, "alertname"), "CPU")
  THEN [primaryCause |-> "High CPU utilization", confidence |-> 75,
        evidence |-> << <<"Alert name contains \"CPU\"">> >>,
        suggestedFix |-> "Optimize CPU-intensive operations or scale up"]
  ELSE IF GetS(alert, "severity") = "critical"
  THEN [primaryCause |-> "Service outage or critical failure", confidence |-> 70,
        evidence |-> << <<"Alert severity is critical">> >>,
        suggestedFix |-> "Immediate investigation and potential rollback"]
  ELSE [primaryCause |-> "Unknown", confidence |-> 0, evidence |-> <<>>, suggestedFix |-> ""]

\* generateHypothesis keeping the suggested fix of the rule by alert type
GenerateHypothesisKeepingFix(alert, changes, runbooks) ==
  LET h0 == BaseHypothesis(alert)
      h1 == IF changes # <<>>
            THEN [h0 EXCEPT !.evidence = Append(@, <<"Recent commit: ", changes[1]>>),
                            !.confidence = Min(@ + 10, 100)]
            ELSE h0
  IN IF runbooks # <<>>
     THEN [h1 EXCEPT !.evidence = Append(@, <<"Found ", Len(runbooks), " relevant runbook(s)">>),
                     !.confidence = Min(@ + 10, 100)]
     ELSE h1

\* generateHypothesis (lines 235-278); changes is the sequence of recent commits
GenerateHypothesis(alert, changes, runbooks) ==
  LET h0 == BaseHypothesis(alert)
      h1 == IF changes # <<>>
            THEN [h0 EXCEPT !.evidence = Append(@, <<"Recent commit: ", changes[1]>>),
                            !.confidence = Min(@ + 10, 100)]
            ELSE h0
  IN IF runbooks # <<>>
     THEN [h1 EXCEPT !.evidence = Append(@, <<"Found ", Len(runbooks), " relevant runbook(s)">>),
                     !.suggestedFix = runbooks[1].firstStep,
                     !.confidence = Min(@ + 10, 100)]
     ELSE h1

\* generateSuggestedActions (lines 280-319)
GenerateSuggestedActions(hypothesis, runbooks) ==
  << [type |-> "create_ticket", description |-> <<"Create Jira ticket for tracking">>,
      automated |-> TRUE] >>
  \o (IF runbooks # <<>>
      THEN << [type |-> "follow_runbook", description |-> <<"Follow runbook: ", runbooks[1].title>>,
               runbookId |-> runbooks[1].id, automated |-> FALSE] >>
      ELSE <<>>)
  \o (IF hypothesis.confidence > 70
      THEN << [type |-> "apply_fix", description |-> <<hypothesis.suggestedFix>>,
               automated |-> hypothesis.confidence > 80] >>
      ELSE <<>>)
  \o (IF hypothesis.confidence < 50
      THEN << [type |-> "escalate", description |-> <<"Escalate to on-call engineer">>,
               automated |-> TRUE] >>
      ELSE <<>>)

\* what analyzeMetrics returns (lines 131-159): results on success, a status:error marker
MetricsResult(ok) ==
  IF ok THEN [status |-> "success", results |-> <<>>] ELSE [status |-> "error", results |-> <<>>]

\* triageAlert (lines 74-129); metricsOk and changes are the collaborators' answers
TriageAlert(alert, metricsOk, changes) ==
  LET runbooks == SearchRunbooks(alert)
      hypothesis == GenerateHypothesis(alert, changes, runbooks)
  IN [alertId  |-> OrS(GetS(alert, "id"),
                       OrS(GetS(alert, "fingerprint"),
                           OrS(GetS(alert, "alertId"), OrS(LabelOf(alert, "fingerprint"), "")))),
      summary  |-> OrS(GetS(alert, "summary"),
                       OrS(AnnotationOf(alert, "summary"),
                           OrS(LabelOf(alert, "alertname"), "Unknown Alert"))),
      severity |-> OrS(GetS(alert, "severity"), OrS(LabelOf(alert, "severity"), "warning")),
      hypothesis |-> hypothesis,
      suggestedActions |-> GenerateSuggestedActions(hypothesis, runbooks),
      runbooks |-> [i \in 1..Len(runbooks) |-> runbooks[i].id],
      recentChanges |-> changes,
      metrics |-> MetricsResult(metricsOk)]

\* the entry triageAlert pushes to the agent's memoryStore (lines 106-113)
MemoryEntry(alert, triageResult, t) ==
  [type       |-> "triage",
   alertId    |-> GetS(alert, "id"),
   timestamp  |-> t,
   hypothesis |-> triageResult.hypothesis,
   runbooks   |-> triageResult.runbooks,
   changes    |-> triageResult.recentChanges]

\* triageAlert on an agent whose memoryStore is memory, at time t: the value
\* returned and the memoryStore afterwards
TriageWithMemory(memory, alert, env, t) ==
  LET triageResult == TriageAlert(alert, env.metricsOk, env.changes)
  IN [ret |-> triageResult,
      memoryStore |-> Append(memory, MemoryEntry(alert, triageResult, t))]

(***************************************************************************)
(* FixerAgent.  env holds the collaborators' answers during one applyFix:  *)
(* prFails (pull-request creation throws), jira (the status                *)
(* createJiraTicket returns) and verify (the status verifyFix returns).    *)
(***************************************************************************)
FixEnvs ==
  [prFails : BOOLEAN, jira : {"created", "skipped", "failed"},
   verify : {"resolved", "still_firing", "unknown"}]

\* generatePatch (lines 302-332): whether the patch has files
PatchHasFiles(suggestedFix) ==
  \/ Contains(ToLowerCase(suggestedFix), "memory")
  \/ Contains(ToLowerCase(suggestedFix), "scale")
  \/ Contains(ToLowerCase(suggestedFix), "timeout")

\* the filter letting every suggested action through
FilterActionsUnfiltered(actions, approved) == actions

RECURSIVE FilterActions(_, _)
\* suggestedActions.filter(action => approvedActions.includes(action.type))
FilterActions(actions, approved) ==
  IF actions = <<>> THEN <<>>
  ELSE (IF Head(actions).type \in approved THEN <<Head(actions)>> ELSE <<>>)
       \o FilterActions(Tail(actions), approved)

\* the entry each action that cannot throw pushes to appliedFixes (lines 237-281)
AppliedFix(action, env) ==
  CASE action.type = "rollback" -> <<[type |-> "rollback", status |-> "rolled_back"]>>
    [] action.type = "restart_service" -> <<[type |-> "restart", status |-> "restarted"]>>
    [] action.type = "scale_service" -> <<[type |-> "scale", status |-> "scaled"]>>
    [] action.type = "create_ticket" -> <<[type |-> "jira_ticket", status |-> env.jira]>>
    [] OTHER -> <<>>

\* one turn of the loop over actionsToApply (lines 215-284); acc is results
\* with the field thrown set once an action has thrown
ApplyAction(acc, action, env) ==
  LET entered == [acc EXCEPT !.executed = Append(@, action.type)]
  IN IF action.type = "apply_fix"
     THEN IF PatchHasFiles(action.description[1])
          THEN IF env.prFails
               THEN [entered EXCEPT !.thrown = TRUE]
               ELSE [entered EXCEPT !.pullRequest = [state |-> "open"],
                                    !.appliedFixes = Append(@, [type |-> "pull_request",
                                                                status |-> "created"])]
          ELSE entered
     ELSE [entered EXCEPT !.appliedFixes = @ \o AppliedFix(action, env)]

RECURSIVE ApplyActions(_, _, _)
ApplyActions(acc, actions, env) ==
  IF actions = <<>> \/ acc.thrown THEN acc
  ELSE ApplyActions(ApplyAction(acc, Head(actions), env), Tail(actions), env)

\* applyFix reporting success as soon as a fix was applied
ApplyFixRunSuccessOnApplied(triageResult, approvedActions, env) ==
  LET results == [alertId |-> GetS(triageResult, "alertId"), appliedFixes |-> <<>>,
                  pullRequest |-> NullObj, success |-> FALSE,
                  verificationStatus |-> "pending", thrown |-> FALSE, verifyIssued |-> FALSE,
                  executed |-> <<>>]
      done == IF "suggestedActions" \in DOMAIN triageResult
              THEN ApplyActions(results,
                                FilterActions(triageResult["suggestedActions"], approvedActions), env)
              ELSE [results EXCEPT !.thrown = TRUE]
  IN [done EXCEPT !.success = (done.appliedFixes # <<>>)]

\* applyFix (lines 198-300) up to its return, for a triage result that is an
\* object: results, with thrown (the catch block ran), verifyIssued
\* (verifyFix was called) and executed (the types of the actions the loop
\* body ran for, in order) beside it
ApplyFixRun(triageResult, approvedActions, env) ==
  LET results == [alertId |-> GetS(triageResult, "alertId"), appliedFixes |-> <<>>,
                  pullRequest |-> NullObj, success |-> FALSE,
                  verificationStatus |-> "pending", thrown |-> FALSE, verifyIssued |-> FALSE,
                  executed |-> <<>>]
      done == IF "suggestedActions" \in DOMAIN triageResult
              THEN ApplyActions(results,
                                FilterActions(triageResult["suggestedActions"], approvedActions), env)
              ELSE [results EXCEPT !.thrown = TRUE]
  IN IF ~done.thrown /\ done.appliedFixes # <<>>
     THEN [done EXCEPT !.verificationStatus = env.verify,
                       !.success = (env.verify = "resolved"),
                       !.verifyIssued = TRUE]
     ELSE [done EXCEPT !.success = FALSE]

\* the FixResult applyFix returns
ApplyFix(triageResult, approvedActions, env) ==
  LET run == ApplyFixRun(triageResult, approvedActions, env)
  IN [k \in DOMAIN run \ {"thrown", "verifyIssued", "executed"} |-> run[k]]

\* the approve handler's jiraTicket field (lines 295-302)
WithJiraTicket(fixResult) ==
  IF \E i \in 1..Len(fixResult["appliedFixes"]) : fixResult["appliedFixes"][i].type = "jira_ticket"
  THEN LET i == CHOOSE j \in 1..Len(fixResult["appliedFixes"]) :
                  /\ fixResult["appliedFixes"][j].type = "jira_ticket"
                  /\ \A l \in 1..(j - 1) : fixResult["appliedFixes"][l].type # "jira_ticket"
       IN Assign(fixResult, [jiraTicket |-> [status |-> fixResult["appliedFixes"][i].status]])
  ELSE fixResult

(***************************************************************************)
(* Inputs: alerts, attachments and patches.                                *)
(***************************************************************************)
\* the alert of the test "should create an incident from an alert"
AlertMemory ==
  [fingerprint |-> "fp-1",
   labels      |-> [alertname |-> "HighMemoryUsage", severity |-> "critical"],
   annotations |-> [summary |-> "Memory usage at 95%"],
   startsAt    |-> "t0",
   status      |-> "firing"]

\* the alert of the test "should handle missing alert data gracefully"
AlertBare == [id |-> "test-alert", fingerprint |-> "test-fp"]

\* an alert with a name but neither a summary annotation nor a severity label
AlertNoSummary ==
  [fingerprint |-> "fp-2",
   labels      |-> [alertname |-> "DiskFull"],
   annotations |-> EmptyObj,
   status      |-> "firing"]

\* an alert that carries summary and severity at its top level
AlertTopLevel ==
  [fingerprint |-> "fp-1",
   summary     |-> "Top summary",
   severity    |-> "info",
   labels      |-> [alertname |-> "HighMemoryUsage", severity |-> "critical"],
   annotations |-> [summary |-> "Memory usage at 95%"]]

Alerts == {AlertMemory, AlertBare, AlertNoSummary, AlertTopLevel}

Triage1 == [hypothesis |-> [primaryCause |-> "Memory leak"], suggestedActions |-> <<"create_ticket">>]
Triage2 == [hypothesis |-> [primaryCause |-> "Unknown"]]
Fix1 == [success |-> TRUE, appliedFixes |-> <<"jira_ticket">>, pullRequest |-> NullObj]
Fix2 == [success |-> FALSE, appliedFixes |-> <<>>, pullRequest |-> NullObj]

Statuses == {"triaged", "in_progress", "resolved", "failed"}
TerminalStatuses == {"resolved", "failed"}

\* the patches a direct caller passes to updateIncident
Patches ==
  {[status |-> st] : st \in Statuses}
  \cup {[triageResult |-> Triage1], [triage_result |-> Triage2],
        [triageResult |-> Triage1, triage_result |-> Triage2],
        [status |-> "triaged", triageResult |-> Triage1],
        [status |-> "resolved", fixResult |-> Fix1],
        [status |-> "failed", fix_result |-> Fix2],
        [labels |-> [alertname |-> "Renamed"]]}

\* an id no incident was given
UnknownId == <<"non-existent", 0>>

(***************************************************************************)
(* The history of each incident's status, kept beside the store to state   *)
(* properties of it: held[id] is the sequence of the values the status     *)
(* field of incident id has had.                                           *)
(***************************************************************************)
StoredIds(db) == {Storage(db).incidents[i]["id"] : i \in 1..Len(Storage(db).incidents)}

HeldAfter(h, db) ==
  [id \in StoredIds(db) |->
     LET st == StoredIncident(db, id)["status"]
     IN IF id \notin DOMAIN h THEN <<st>>
        ELSE IF h[id][Len(h[id])] = st THEN h[id]
        ELSE Append(h[id], st)]

(***************************************************************************)
(* A direct caller of the IncidentManager: one call at a time, each        *)
(* awaited.                                                                *)
(***************************************************************************)
NoCall == [op |-> "none", id |-> UnknownId, arg |-> EmptyObj, ret |-> UndefObj, threw |-> ""]

Called(op, id, arg, r) ==
  /\ lastCall' = [op |-> op, id |-> id, arg |-> arg, ret |-> r.ret, threw |-> r.threw]
  /\ database' = r.db
  /\ held' = HeldAfter(held, r.db)
  /\ calls' = calls + 1

MgrInit ==
  /\ database \in {InitialDatabase("null"), InitialDatabase("pg")}
  /\ now = 0
  /\ uuid = 0
  /\ lastCall = NoCall
  /\ held = <<>>
  /\ calls = 0
  /\ processedAlerts = {}
  /\ polling = FALSE
  /\ tasks = <<>>
  /\ responses = <<>>
  /\ memoryStore = <<>>

Tick ==
  /\ now < MaxClock
  /\ now' = now + 1
  /\ UNCHANGED <<database, uuid, lastCall, held, calls, processedAlerts, polling, tasks, responses, memoryStore>>

MgrCreateIncident ==
  /\ uuid < MaxIncidents
  /\ calls < MaxCalls
  /\ \E alert \in Alerts :
       Called("createIncident", IncidentId(uuid + 1), alert,
              CreateIncident(database, alert, IncidentId(uuid + 1), now))
  /\ uuid' = uuid + 1
  /\ UNCHANGED <<now, processedAlerts, polling, tasks, responses, memoryStore>>

MgrUpdateIncident ==
  /\ calls < MaxCalls
  /\ \E id \in StoredIds(database) \cup {UnknownId}, updates \in Patches :
       Called("updateIncident", id, updates, UpdateIncident(database, id, updates, now))
  /\ UNCHANGED <<now, uuid, processedAlerts, polling, tasks, responses, memoryStore>>

MgrResolveIncident ==
  /\ calls < MaxCalls
  /\ \E id \in StoredIds(database) \cup {UnknownId} :
       Called("resolveIncident", id, [note |-> "fixed"],
              ResolveIncident(database, id, [note |-> "fixed"], now))
  /\ UNCHANGED <<now, uuid, processedAlerts, polling, tasks, responses, memoryStore>>

MgrGetIncident ==
  /\ calls < MaxCalls
  /\ \E id \in StoredIds(database) \cup {UnknownId} :
       Called("getIncident", id, EmptyObj, GetIncident(database, id))
  /\ UNCHANGED <<now, uuid, processedAlerts, polling, tasks, responses, memoryStore>>

MgrNext ==
  \/ Tick
  \/ MgrCreateIncident
  \/ MgrUpdateIncident
  \/ MgrResolveIncident
  \/ MgrGetIncident

MgrSpec == MgrInit /\ [][MgrNext]_vars

\* the same caller, reading timelines as well
MgrGetTimeline ==
  /\ calls < MaxCalls
  /\ \E id \in StoredIds(database) \cup {UnknownId} :
       Called("getTimeline", id, EmptyObj, Ok(database, GetTimeline(database, id)))
  /\ UNCHANGED <<now, uuid, processedAlerts, polling, tasks, responses, memoryStore>>

LogNext ==
  \/ MgrNext
  \/ MgrGetTimeline

LogSpec == MgrInit /\ [][LogNext]_vars

(***************************************************************************)
(* The orchestrator.  A task is a running listener of the 'alert' event or *)
(* a running POST /api/approve request; it advances one await at a time.   *)
(* pending holds the store calls the task still has to make in its current *)
(* IncidentManager call.                                                   *)
(***************************************************************************)
\* Buffer.from(key).toString('base64') for the keys the polled alerts give
Base64(key) ==
  CASE key = <<"HighMemoryUsage", "-", "unknown", "-", "t0">> -> "SGlnaE1lbW9yeVVzYWdlLXVua25vd24tdDA="
    [] key = <<"HighMemoryUsage", "-", "unknown", "-", "t1">> -> "SGlnaE1lbW9yeVVzYWdlLXVua25vd24tdDE="
    [] key = <<"HighCPULoad", "-", "unknown", "-", "t0">> -> "SGlnaENQVUxvYWQtdW5rbm93bi10MA=="

\* generateFingerprint (lines 78-81 of the watcher)
GenerateFingerprint(alert) ==
  Base64(<<LabelOf(alert, "alertname"), "-", OrS(LabelOf(alert, "instance"), "unknown"), "-",
           GetS(alert, "activeAt")>>)

\* what the poll's GET /api/v1/alerts answers
PrometheusFiring ==
  [labels |-> [alertname |-> "HighMemoryUsage", severity |-> "critical"],
   annotations |-> [summary |-> "Memory usage at 95%"],
   state |-> "firing", activeAt |-> "t0"]
PrometheusPending == [PrometheusFiring EXCEPT !.state = "pending", !.activeAt = "t1"]

PollResponses ==
  { [ok |-> FALSE, alerts |-> <<>>],
    [ok |-> TRUE, alerts |-> <<>>],
    [ok |-> TRUE, alerts |-> <<PrometheusFiring>>],
    [ok |-> TRUE, alerts |-> <<PrometheusPending, PrometheusFiring>>] }

\* the bodies posted to /webhook/prometheus: json tells what JSON.parse makes
\* of the text ("invalid": it throws; "null" and "number": that value;
\* "alerts-number": an object whose alerts is a number; "object": an object
\* whose alerts is the list given)
WebhookBodies ==
  { [json |-> "invalid", alerts |-> <<>>],
    [json |-> "null", alerts |-> <<>>],
    [json |-> "number", alerts |-> <<>>],
    [json |-> "alerts-number", alerts |-> <<>>],
    [json |-> "object", alerts |-> <<AlertMemory>>],
    [json |-> "object", alerts |-> <<AlertMemory, AlertMemory>>] }

\* JSON.parse(body) returns
ParsesAsJSON(body) == body.json # "invalid"

\* the handler's try block throws (lines 234-238): JSON.parse throws,
\* data.alerts is read off null, or data.alerts is not iterable
WebhookThrows(body) == body.json \in {"invalid", "null", "alerts-number"}

ApprovedSets == { {"create_ticket"}, {"create_ticket", "apply_fix"}, {} }

\* the answers the fixer's collaborators give during one approved fix
ApproveEnvs ==
  { [prFails |-> FALSE, jira |-> "created", verify |-> "resolved"],
    [prFails |-> TRUE, jira |-> "skipped", verify |-> "unknown"],
    [prFails |-> FALSE, jira |-> "failed", verify |-> "still_firing"] }

\* the answers the triage agent's collaborators give during one triage
TriageEnvs ==
  { [metricsOk |-> TRUE, changes |-> <<>>],
    [metricsOk |-> FALSE, changes |-> <<"commit-1">>] }

NewTask(kind, alert, incidentId, pending) ==
  [kind |-> kind, pc |-> IF kind = "alert" THEN "create" ELSE "get",
   alert |-> alert, incidentId |-> incidentId, pending |-> pending,
   incident |-> UndefObj, result |-> UndefObj, actions |-> {}]

RECURSIVE EmitAll(_, _, _, _)
\* alertEmitter.emit('alert', a) for each a of alerts in order: each starts a
\* listener, which draws its incident id (line 8) before its first await
EmitAll(ts, n, alerts, t) ==
  IF alerts = <<>> THEN ts
  ELSE EmitAll(Append(ts, NewTask("alert", Head(alerts), IncidentId(n + 1),
                                  CreateIncidentCalls(Head(alerts), IncidentId(n + 1), t))),
               n + 1, Tail(alerts), t)

Respond(status, route) == responses' = Append(responses, [status |-> status, route |-> route])

\* POST /webhook/prometheus (lines 228-246) with the body given
WebhookPostOf(body) ==
  /\ Len(tasks) + Len(body.alerts) <= MaxTasks
  /\ Len(responses) < MaxRequests
  /\ IF WebhookThrows(body)
     THEN /\ Respond(400, "webhook")
          /\ UNCHANGED <<tasks, uuid>>
     ELSE /\ tasks' = EmitAll(tasks, uuid, body.alerts, now)
          /\ uuid' = uuid + Len(body.alerts)
          /\ Respond(200, "webhook")
  /\ UNCHANGED <<database, now, lastCall, held, calls, processedAlerts, polling, memoryStore>>

WebhookPost == \E body \in WebhookBodies : WebhookPostOf(body)

\* the loop of a poll cycle without its test of processedAlerts
RECURSIVE NewFiringUnchecked(_, _)
NewFiringUnchecked(alerts, processed) ==
  IF alerts = <<>> THEN <<>>
  ELSE LET a == Head(alerts)
       IN IF a.state = "firing" /\ ~TruthyO(GetO(a, "labels")) THEN <<>>
          ELSE IF a.state = "firing"
          THEN <<[fingerprint |-> GenerateFingerprint(a), labels |-> a.labels,
                  annotations |-> a.annotations, startsAt |-> a.activeAt,
                  status |-> "firing"]>>
               \o NewFiringUnchecked(Tail(alerts), processed)
          ELSE NewFiringUnchecked(Tail(alerts), processed)

\* the poll callback's try block throws (lines 48-71): the GET is rejected, or
\* generateFingerprint reads alert.labels.alertname of a firing alert that
\* has no labels
PollThrows(response) ==
  \/ ~response.ok
  \/ \E j \in 1..Len(response.alerts) :
       response.alerts[j].state = "firing" /\ ~TruthyO(GetO(response.alerts[j], "labels"))

RECURSIVE NewFiring(_, _)
\* the poll loop's body (lines 52-71): the alerts it emits, in order, up to
\* the alert at which generateFingerprint throws
NewFiring(alerts, processed) ==
  IF alerts = <<>> THEN <<>>
  ELSE LET a == Head(alerts)
           fingerprint == GenerateFingerprint(a)
       IN IF a.state = "firing" /\ ~TruthyO(GetO(a, "labels")) THEN <<>>
          ELSE IF a.state = "firing" /\ fingerprint \notin processed
          THEN <<[fingerprint |-> fingerprint, labels |-> a.labels,
                  annotations |-> a.annotations, startsAt |-> a.activeAt,
                  status |-> "firing"]>>
               \o NewFiring(Tail(alerts), processed \cup {fingerprint})
          ELSE NewFiring(Tail(alerts), processed)

\* one cycle of the poll (lines 47-75): the request and, on an answer, the loop
PollCycle ==
  /\ polling
  /\ Len(tasks) < MaxTasks
  /\ \E response \in PollResponses :
       LET emitted == IF response.ok THEN NewFiring(response.alerts, processedAlerts) ELSE <<>>
       IN /\ Len(tasks) + Len(emitted) <= MaxTasks
          /\ processedAlerts' = processedAlerts \cup {emitted[i].fingerprint : i \in 1..Len(emitted)}
          /\ tasks' = EmitAll(tasks, uuid, emitted, now)
          /\ uuid' = uuid + Len(emitted)
  /\ UNCHANGED <<database, now, lastCall, held, calls, polling, responses, memoryStore>>

\* POST /api/approve/{id} (lines 271-277): the request arrives
ApproveReceive ==
  /\ Len(tasks) < MaxTasks
  /\ \E id \in StoredIds(database) \cup {UnknownId}, actions \in ApprovedSets :
       tasks' = Append(tasks, [NewTask("approve", EmptyObj, id, <<>>) EXCEPT !.actions = actions])
  /\ UNCHANGED <<database, now, uuid, lastCall, held, calls, processedAlerts, polling, responses, memoryStore>>

\* the request GET /api/incidents, which names no incident
NoId == <<"", 0>>

\* GET /api/incidents and GET /api/incidents/{id} (lines 248-269)
IncidentsGetOf(id) ==
  /\ Len(responses) < MaxRequests
  /\ IF id = NoId
     THEN Respond(200, "incidents")
     ELSE IF TruthyO(GetIncident(database, id).ret)
     THEN Respond(200, "incidents")
     ELSE Respond(404, "incidents")
  /\ UNCHANGED <<database, now, uuid, lastCall, held, calls, processedAlerts, polling, tasks,
                 memoryStore>>

IncidentsGet == \E id \in StoredIds(database) \cup {UnknownId, NoId} : IncidentsGetOf(id)

\* the approve handler without its test of the incident it read
ApproveGetUnchecked(i) ==
  /\ tasks[i].kind = "approve" /\ tasks[i].pc = "get"
  /\ LET incident == GetIncident(database, tasks[i].incidentId).ret
         triageResult == OrO(GetO(incident, "triageResult"), GetO(incident, "triage_result"))
     IN IF triageResult \in {UndefObj, NullObj}
        THEN /\ Respond(400, "approve")
             /\ tasks' = [tasks EXCEPT ![i].pc = "done"]
        ELSE /\ tasks' = [tasks EXCEPT ![i].pc = "fix", ![i].incident = triageResult]
             /\ UNCHANGED responses
  /\ UNCHANGED <<database, now, uuid, lastCall, held, calls, processedAlerts, polling, memoryStore>>

\* the approve handler with an applyFix that takes a missing triage result
\* for one without suggested actions
ApproveGetTolerant(i) ==
  /\ tasks[i].kind = "approve" /\ tasks[i].pc = "get"
  /\ LET incident == GetIncident(database, tasks[i].incidentId).ret
         triageResult == OrO(GetO(incident, "triageResult"), GetO(incident, "triage_result"))
     IN IF incident = UndefObj
        THEN /\ Respond(404, "approve")
             /\ tasks' = [tasks EXCEPT ![i].pc = "done"]
        ELSE /\ tasks' = [tasks EXCEPT ![i].pc = "fix",
                                       ![i].incident = IF triageResult \in {UndefObj, NullObj}
                                                       THEN EmptyObj ELSE triageResult]
             /\ UNCHANGED responses
  /\ UNCHANGED <<database, now, uuid, lastCall, held, calls, processedAlerts, polling, memoryStore>>

\* the approve handler up to applyFix's first await (lines 279-292 and 198-220):
\* 404 for an unknown incident; applyFix reads triageResult.alertId before its
\* try block, so an incident without a triage result ends in the handler's catch
ApproveGet(i) ==
  /\ tasks[i].kind = "approve" /\ tasks[i].pc = "get"
  /\ LET incident == GetIncident(database, tasks[i].incidentId).ret
         triageResult == OrO(GetO(incident, "triageResult"), GetO(incident, "triage_result"))
     IN IF incident = UndefObj
        THEN /\ Respond(404, "approve")
             /\ tasks' = [tasks EXCEPT ![i].pc = "done"]
        ELSE IF triageResult \in {UndefObj, NullObj}
        THEN /\ Respond(400, "approve")
             /\ tasks' = [tasks EXCEPT ![i].pc = "done"]
        ELSE /\ tasks' = [tasks EXCEPT ![i].pc = "fix", ![i].incident = triageResult]
             /\ UNCHANGED responses
  /\ UNCHANGED <<database, now, uuid, lastCall, held, calls, processedAlerts, polling, memoryStore>>

\* applyFix runs to its end; the handler builds the patch it will store (lines 289-307)
ApproveFix(i) ==
  /\ tasks[i].kind = "approve" /\ tasks[i].pc = "fix"
  /\ \E env \in ApproveEnvs :
       LET fixResult == WithJiraTicket(ApplyFix(tasks[i].incident, tasks[i].actions, env))
           updates == [fixResult |-> fixResult,
                       status |-> IF fixResult["success"] THEN "resolved" ELSE "failed"]
       IN tasks' = [tasks EXCEPT ![i].pc = "update", ![i].result = fixResult,
                                 ![i].pending = <<UpdateCall(tasks[i].incidentId, updates)>>]
  /\ UNCHANGED <<database, now, uuid, lastCall, held, calls, processedAlerts, polling, responses, memoryStore>>

\* the listener with its disabled automatic fix (lines 203-211) switched on
AlertTriageWithAutoFix(i) ==
  /\ tasks[i].kind = "alert" /\ tasks[i].pc = "triage"
  /\ \E env \in TriageEnvs, fixEnv \in ApproveEnvs :
       LET triageResult == TriageAlert(tasks[i].alert, env.metricsOk, env.changes)
           fixResult == ApplyFix(triageResult, {"create_ticket"}, fixEnv)
           updates == [triageResult |-> triageResult, fixResult |-> fixResult,
                       status |-> IF fixResult["success"] THEN "resolved" ELSE "failed"]
       IN /\ tasks' = [tasks EXCEPT ![i].pc = "update", ![i].result = triageResult,
                                    ![i].pending = <<UpdateCall(tasks[i].incidentId, updates)>>]
          /\ memoryStore' = Append(memoryStore, MemoryEntry(tasks[i].alert, triageResult, now))
  /\ UNCHANGED <<database, now, uuid, lastCall, held, calls, processedAlerts, polling, responses>>

\* a triage that waits while any remediation is in its settle wait
AlertTriageAfterSettle(i) ==
  /\ tasks[i].kind = "alert" /\ tasks[i].pc = "triage"
  /\ \A k \in 1..Len(tasks) : tasks[k].pc # "settle"
  /\ \E env \in TriageEnvs :
       LET triageResult == TriageAlert(tasks[i].alert, env.metricsOk, env.changes)
           updates == [triageResult |-> triageResult, status |-> "triaged"]
       IN /\ tasks' = [tasks EXCEPT ![i].pc = "update", ![i].result = triageResult,
                                    ![i].pending = <<UpdateCall(tasks[i].incidentId, updates)>>]
          /\ memoryStore' = Append(memoryStore, MemoryEntry(tasks[i].alert, triageResult, now))
  /\ UNCHANGED <<database, now, uuid, lastCall, held, calls, processedAlerts, polling, responses>>

\* the listener's triageAlert call and the patch it will store (lines 184-190)
AlertTriage(i) ==
  /\ tasks[i].kind = "alert" /\ tasks[i].pc = "triage"
  /\ \E env \in TriageEnvs :
       LET triageResult == TriageAlert(tasks[i].alert, env.metricsOk, env.changes)
           updates == [triageResult |-> triageResult, status |-> "triaged"]
       IN /\ tasks' = [tasks EXCEPT ![i].pc = "update", ![i].result = triageResult,
                                    ![i].pending = <<UpdateCall(tasks[i].incidentId, updates)>>]
          /\ memoryStore' = Append(memoryStore, MemoryEntry(tasks[i].alert, triageResult, now))
  /\ UNCHANGED <<database, now, uuid, lastCall, held, calls, processedAlerts, polling, responses>>

\* the pc a task moves to when the IncidentManager call it is in has returned
AfterCall(task) == IF task.pc = "create" THEN "triage" ELSE "done"

\* a task makes the next store call of the IncidentManager call it is in
StoreStep(i) ==
  /\ tasks[i].pc \in {"create", "update"}
  /\ LET task == tasks[i]
         c == Head(task.pending)
         r == Exec(database, c, now)
         throws == r.threw # "" \/ (c.call = "updateIncident" /\ UpdateThrows(r.ret, c.updates))
         rest == IF c.call = "updateIncident"
                 THEN UpdateIncidentCalls(r.ret, c.id, c.updates, now)
                 ELSE Tail(task.pending)
         pc == IF throws THEN "error" ELSE IF rest = <<>> THEN AfterCall(task) ELSE task.pc
     IN /\ database' = r.db
        /\ held' = HeldAfter(held, r.db)
        /\ tasks' = [tasks EXCEPT ![i].pc = pc,
                                  ![i].pending = IF throws THEN <<>> ELSE rest]
        /\ IF task.kind = "approve" /\ pc \in {"error", "done"}
           THEN Respond(IF throws THEN 400 ELSE 200, "approve")
           ELSE UNCHANGED responses
  /\ UNCHANGED <<now, uuid, lastCall, calls, processedAlerts, polling, memoryStore>>

Init ==
  /\ database \in {InitialDatabase("null"), InitialDatabase("pg")}
  /\ now = 0
  /\ uuid = 0
  /\ lastCall = NoCall
  /\ held = <<>>
  /\ calls = 0
  /\ processedAlerts = {}
  /\ polling = TRUE
  /\ tasks = <<>>
  /\ responses = <<>>
  /\ memoryStore = <<>>

Next ==
  \/ Tick
  \/ WebhookPost
  \/ PollCycle
  \/ IncidentsGet
  \/ ApproveReceive
  \/ \E i \in 1..Len(tasks) : ApproveGet(i)
  \/ \E i \in 1..Len(tasks) : ApproveFix(i)
  \/ \E i \in 1..Len(tasks) : AlertTriage(i)
  \/ \E i \in 1..Len(tasks) : StoreStep(i)

Spec == Init /\ [][Next]_vars

(***************************************************************************)
(* The incident list.  getIncidents reads the whole store, so it is        *)
(* exercised on stores that hold few incidents and on stores that hold     *)
(* about as many as the durable query returns.                             *)
(***************************************************************************)
\* LIMIT 100 of the durable query
QueryLimit == 100

\* the incidents that pass the status and the severity test of filters
FilterIncidents(incidents, filters) ==
  LET keep(i) == /\ TruthyS(GetS(filters, "status")) => i["status"] = filters["status"]
                 /\ TruthyS(GetS(filters, "severity")) => i["severity"] = filters["severity"]
  IN SelectSeq(incidents, keep)

\* DatabaseService.getIncidents (lines 508-546)
DbGetIncidents(db, filters) ==
  LET sorted == SortDesc(FilterIncidents(Storage(db).incidents, filters))
  IN IF db.pool = "null" THEN Ok(db, sorted)
     ELSE Ok(db, SubSeq(sorted, 1, Min(Len(sorted), QueryLimit)))

\* IncidentManager.getIncidents (lines 97-118)
GetIncidents(db, filters) ==
  LET rows == DbGetIncidents(db, filters).ret
  IN Ok(db, [i \in 1..Len(rows) |-> WithBothSpellings(rows[i])])

\* the filters a caller passes to getIncidents
Filters ==
  { EmptyObj, [status |-> "resolved"], [severity |-> "critical"],
    [status |-> "open", severity |-> "warning"] }

\* the alerts the listed incidents come from
ListAlerts == {AlertMemory, AlertBare}

\* the alert of the k-th incident of a populated store
ListAlert(k) == IF k % 2 = 0 THEN AlertMemory ELSE AlertBare

\* what createIncident stores for the k-th incident
StoredByCreate(pool, k) ==
  Storage(CreateIncident(InitialDatabase(pool), ListAlert(k), IncidentId(k), 0).db)

\* the store after createIncident was called for the incidents 1..n in order:
\* each call adds one incident, one event and one relation, numbered in order
PopulatedStorage(pool, n) ==
  [incidents |-> [k \in 1..n |-> StoredByCreate(pool, k).incidents[1]],
   timeline  |-> [k \in 1..n |-> [StoredByCreate(pool, k).timeline[1] EXCEPT !["id"] = k]],
   relations |-> [k \in 1..n |-> [StoredByCreate(pool, k).relations[1] EXCEPT !["id"] = k]]]

Populate(pool, n) ==
  IF pool = "null"
  THEN [InitialDatabase(pool) EXCEPT !.inMemoryStorage = PopulatedStorage(pool, n)]
  ELSE [InitialDatabase(pool) EXCEPT !.pg = PopulatedStorage(pool, n)]

\* the numbers of incidents the store holds when the listing starts
ListSizes == {0, 2, QueryLimit - 1}

ListInit ==
  /\ \E pool \in {"null", "pg"}, n \in ListSizes :
       /\ database = Populate(pool, n)
       /\ uuid = n
  /\ now = 0
  /\ lastCall = NoCall
  /\ held = <<>>
  /\ calls = 0
  /\ processedAlerts = {}
  /\ polling = FALSE
  /\ tasks = <<>>
  /\ responses = <<>>
  /\ memoryStore = <<>>

\* a call leaves the ghost record of statuses alone: the listing does not use it
ListCalled(op, id, arg, r) ==
  /\ lastCall' = [op |-> op, id |-> id, arg |-> arg, ret |-> r.ret, threw |-> r.threw]
  /\ database' = r.db
  /\ calls' = calls + 1
  /\ UNCHANGED <<held, now, processedAlerts, polling, tasks, responses, memoryStore>>

ListCreateIncident ==
  /\ calls < MaxCalls
  /\ \E alert \in ListAlerts :
       ListCalled("createIncident", IncidentId(uuid + 1), alert,
                  CreateIncident(database, alert, IncidentId(uuid + 1), now))
  /\ uuid' = uuid + 1

\* resolveIncident of the oldest or of the newest incident
ListResolveIncident ==
  /\ calls < MaxCalls
  /\ uuid > 0
  /\ \E id \in {IncidentId(1), IncidentId(uuid)} :
       ListCalled("resolveIncident", id, [note |-> "fixed"],
                  ResolveIncident(database, id, [note |-> "fixed"], now))
  /\ UNCHANGED uuid

ListGetIncidents ==
  /\ calls < MaxCalls
  /\ \E filters \in Filters :
       ListCalled("getIncidents", UnknownId, filters, GetIncidents(database, filters))
  /\ UNCHANGED uuid

ListNext ==
  \/ Tick
  \/ ListCreateIncident
  \/ ListResolveIncident
  \/ ListGetIncidents

ListSpec == ListInit /\ [][ListNext]_vars

(***************************************************************************)
(* Startup.  The service is constructed without a pool; connect() runs     *)
(* once, before anything uses the store.  The store's record carries the   *)
(* environment of the process: whether DATABASE_URL is configured and      *)
(* whether the connection test of connect() succeeds.                      *)
(***************************************************************************)
ConnectEnvs ==
  { [configured |-> FALSE, reachable |-> FALSE],
    [configured |-> TRUE,  reachable |-> TRUE],
    [configured |-> TRUE,  reachable |-> FALSE] }

\* connect() keeping the pool whose connection test failed
ConnectNoFallback(db) ==
  IF ~db.env.configured THEN Ok(db, UndefObj)
  ELSE IF db.pool # "null" THEN Ok(db, UndefObj)
  ELSE Ok([db EXCEPT !.pool = "pg"], UndefObj)

\* DatabaseService.connect (lines 270-298)
Connect(db) ==
  IF ~db.env.configured THEN Ok(db, UndefObj)
  ELSE IF db.pool # "null" THEN Ok(db, UndefObj)
  ELSE IF db.env.reachable THEN Ok([db EXCEPT !.pool = "pg"], UndefObj)
  ELSE Ok([db EXCEPT !.pool = "null"], UndefObj)

ConnInit ==
  /\ \E env \in ConnectEnvs :
       database = Assign(InitialDatabase("null"), [env |-> env])
  /\ now = 0
  /\ uuid = 0
  /\ lastCall = NoCall
  /\ held = <<>>
  /\ calls = 0
  /\ processedAlerts = {}
  /\ polling = FALSE
  /\ tasks = <<>>
  /\ responses = <<>>
  /\ memoryStore = <<>>

\* start() awaits connect() first (test-helpers.ts lines 328-330)
ConnConnect ==
  /\ calls = 0
  /\ Called("connect", UnknownId, EmptyObj, Connect(database))
  /\ UNCHANGED <<now, uuid, processedAlerts, polling, tasks, responses, memoryStore>>

\* the reads of the list and of a timeline
ConnRead ==
  /\ calls > 0 /\ calls < MaxCalls
  /\ \/ Called("getIncidents", UnknownId, EmptyObj, GetIncidents(database, EmptyObj))
     \/ \E id \in StoredIds(database) :
          Called("getTimeline", id, EmptyObj, Ok(database, GetTimeline(database, id)))
  /\ UNCHANGED <<now, uuid, processedAlerts, polling, tasks, responses, memoryStore>>

ConnNext ==
  \/ Tick
  \/ ConnConnect
  \/ ConnRead
  \/ (calls > 0 /\ MgrCreateIncident)
  \/ (calls > 0 /\ MgrUpdateIncident)
  \/ (calls > 0 /\ MgrResolveIncident)
  \/ (calls > 0 /\ MgrGetIncident)

ConnSpec == ConnInit /\ [][ConnNext]_vars

(***************************************************************************)
(* The two backends side by side: one sequence of operations (create, two  *)
(* updates, a timeline read and a read of the incident) is run on a fresh  *)
(* in-memory service and on a fresh durable one.                           *)
(***************************************************************************)
\* the patches of the sequence: those of a direct caller and one that sets a
\* field the incidents table has no column for
SequencePatches == Patches \cup {[assignee |-> "alice"]}

\* the inputs of a sequence: the alert, and the target and the patch of each update
SequenceInputs ==
  [alert : Alerts,
   id1 : {IncidentId(1), UnknownId}, updates1 : SequencePatches,
   id2 : {IncidentId(1), UnknownId}, updates2 : SequencePatches]

\* the sequence run on one backend; a call that throws leaves the store as
\* it was when it threw, and the sequence goes on
RunSequence(pool, in) ==
  LET created == CreateIncident(InitialDatabase(pool), in.alert, IncidentId(1), 0)
      first   == UpdateIncident(created.db, in.id1, in.updates1, 0)
      second  == UpdateIncident(first.db, in.id2, in.updates2, 0)
      events  == GetTimeline(second.db, IncidentId(1))
  IN [eventTypes |-> [i \in 1..Len(events) |-> events[i]["event_type"]],
      incident   |-> GetIncident(second.db, IncidentId(1)).ret]

SeqInit ==
  /\ database = InitialDatabase("null")
  /\ now = 0
  /\ uuid = 0
  /\ \E in \in SequenceInputs :
       lastCall = [op |-> "none", id |-> UnknownId, arg |-> in, ret |-> UndefObj, threw |-> ""]
  /\ held = <<>>
  /\ calls = 0
  /\ processedAlerts = {}
  /\ polling = FALSE
  /\ tasks = <<>>
  /\ responses = <<>>
  /\ memoryStore = <<>>

SeqRun ==
  /\ lastCall.op = "none"
  /\ lastCall' = [lastCall EXCEPT !.op = "sequence",
                                  !.ret = [memory  |-> RunSequence("null", lastCall.arg),
                                           durable |-> RunSequence("pg", lastCall.arg)]]
  /\ UNCHANGED <<database, now, uuid, held, calls, processedAlerts, polling, tasks, responses, memoryStore>>

SeqNext == SeqRun

SeqSpec == SeqInit /\ [][SeqNext]_vars

(***************************************************************************)
(* One TriageAgent called directly, one triage at a time.                  *)
(***************************************************************************)
MaxTriages == 2

AlertCPU ==
  [fingerprint |-> "fp-3",
   labels      |-> [alertname |-> "HighCPULoad", severity |-> "warning"],
   annotations |-> EmptyObj,
   status      |-> "firing"]

\* an alert that is critical at its top level only, and one in its labels only
AlertCriticalTop == [fingerprint |-> "fp-4", severity |-> "critical",
                     labels |-> [alertname |-> "ServiceDown"]]
AlertCriticalLabel == [fingerprint |-> "fp-5",
                       labels |-> [alertname |-> "ServiceDown", severity |-> "critical"]]

TriagedAlerts == Alerts \cup {AlertCPU, AlertCriticalTop, AlertCriticalLabel}

\* the answers of the metrics query and of the commit listing
CollaboratorAnswers == [metricsOk : BOOLEAN, changes : {<<>>, <<"commit-1">>}]

TriInit ==
  /\ database = InitialDatabase("null")
  /\ now = 0
  /\ uuid = 0
  /\ lastCall = NoCall
  /\ held = <<>>
  /\ calls = 0
  /\ processedAlerts = {}
  /\ polling = FALSE
  /\ tasks = <<>>
  /\ responses = <<>>
  /\ memoryStore = <<>>

TriTriageAlert ==
  /\ calls < MaxTriages
  /\ \E alert \in TriagedAlerts, env \in CollaboratorAnswers :
       LET r == TriageWithMemory(memoryStore, alert, env, now)
       IN /\ lastCall' = [op |-> "triageAlert", id |-> UnknownId,
                          arg |-> [alert |-> alert, env |-> env], ret |-> r.ret, threw |-> ""]
          /\ memoryStore' = r.memoryStore
  /\ calls' = calls + 1
  /\ UNCHANGED <<database, now, uuid, held, processedAlerts, polling, tasks, responses>>

TriNext ==
  \/ Tick
  \/ TriTriageAlert

TriSpec == TriInit /\ [][TriNext]_vars

(***************************************************************************)
(* generateHypothesis and generateSuggestedActions called directly, with   *)
(* any context: the recent changes and the runbooks are arguments here.    *)
(***************************************************************************)
MaxHypotheses == 1

AlertMemoryAndCPU ==
  [fingerprint |-> "fp-6",
   labels      |-> [alertname |-> "HighMemoryAndCPU", severity |-> "critical"],
   annotations |-> EmptyObj]

HypothesisAlerts == TriagedAlerts \cup {AlertMemoryAndCPU}

RecentChanges == {<<>>, <<"commit-1">>, <<"commit-2", "commit-1">>}

RunbookMatches ==
  {<<>>, <<MockRunbooks[1]>>, <<MockRunbooks[2]>>, <<MockRunbooks[2], MockRunbooks[3]>>,
   MockRunbooks}

\* the confidences generateSuggestedActions is called with, in hundredths
Confidences == {0, 10, 49, 50, 51, 70, 71, 75, 80, 81, 85, 90, 100}

HypGenerateHypothesis ==
  /\ calls < MaxHypotheses
  /\ \E alert \in HypothesisAlerts, changes \in RecentChanges, runbooks \in RunbookMatches :
       lastCall' = [op |-> "generateHypothesis", id |-> UnknownId,
                    arg |-> [alert |-> alert, changes |-> changes, runbooks |-> runbooks],
                    ret |-> GenerateHypothesis(alert, changes, runbooks), threw |-> ""]
  /\ calls' = calls + 1
  /\ UNCHANGED <<database, now, uuid, held, processedAlerts, polling, tasks, responses, memoryStore>>

HypGenerateSuggestedActions ==
  /\ calls < MaxHypotheses
  /\ \E confidence \in Confidences, runbooks \in RunbookMatches :
       LET hypothesis == [primaryCause |-> "Unknown", confidence |-> confidence,
                          evidence |-> <<>>, suggestedFix |-> "Investigate logs"]
       IN lastCall' = [op |-> "generateSuggestedActions", id |-> UnknownId,
                       arg |-> [hypothesis |-> hypothesis, runbooks |-> runbooks],
                       ret |-> GenerateSuggestedActions(hypothesis, runbooks), threw |-> ""]
  /\ calls' = calls + 1
  /\ UNCHANGED <<database, now, uuid, held, processedAlerts, polling, tasks, responses, memoryStore>>

HypNext ==
  \/ HypGenerateHypothesis
  \/ HypGenerateSuggestedActions

HypSpec == TriInit /\ [][HypNext]_vars

(***************************************************************************)
(* One FixerAgent called directly with a triage result, the approved       *)
(* action types and the answers its collaborators will give.               *)
(***************************************************************************)
MaxFixes == 1

\* a triage result whose code fix comes before its other actions
TriagePRFirst ==
  [alertId |-> "fp-1", summary |-> "Memory usage at 95%",
   suggestedActions |->
     << [type |-> "apply_fix", description |-> <<"Increase memory limit">>, automated |-> TRUE],
        [type |-> "restart_service", description |-> <<"Restart the service">>, automated |-> FALSE],
        [type |-> "create_ticket", description |-> <<"Create Jira ticket for tracking">>,
         automated |-> TRUE] >>]

\* a triage result with the operational actions and a fix that changes no file
TriageOps ==
  [alertId |-> "fp-2", summary |-> "Deploy failed",
   suggestedActions |->
     << [type |-> "rollback", description |-> <<"Roll back the deployment">>, automated |-> FALSE],
        [type |-> "apply_fix", description |-> <<"Investigate logs">>, automated |-> FALSE],
        [type |-> "scale_service", description |-> <<"Add replicas">>, automated |-> FALSE] >>]

\* a triage result without a suggestedActions field
TriageNoActions == [alertId |-> "fp-2", summary |-> "Deploy failed"]

FixTriageResults ==
  {TriageAlert(AlertMemory, TRUE, <<>>), TriageAlert(AlertNoSummary, FALSE, <<>>),
   TriagePRFirst, TriageOps, TriageNoActions}

FixApprovedSets ==
  ApprovedSets
  \cup { {"apply_fix"}, {"rollback"},
         {"apply_fix", "create_ticket", "restart_service", "rollback", "scale_service"} }

FixInit ==
  /\ database = InitialDatabase("null")
  /\ now = 0
  /\ uuid = 0
  /\ lastCall = NoCall
  /\ held = <<>>
  /\ calls = 0
  /\ processedAlerts = {}
  /\ polling = FALSE
  /\ tasks = <<>>
  /\ responses = <<>>
  /\ memoryStore = <<>>

FixApplyFix ==
  /\ calls < MaxFixes
  /\ \E triageResult \in FixTriageResults, approvedActions \in FixApprovedSets, env \in FixEnvs :
       LET run == ApplyFixRun(triageResult, approvedActions, env)
       IN lastCall' = [op |-> "applyFix", id |-> UnknownId,
                       arg |-> [triageResult |-> triageResult,
                                approvedActions |-> approvedActions, env |-> env],
                       ret |-> ApplyFix(triageResult, approvedActions, env),
                       threw |-> "",
                       effects |-> [thrown |-> run.thrown, verifyIssued |-> run.verifyIssued,
                                   executed |-> run.executed]]
  /\ calls' = calls + 1
  /\ UNCHANGED <<database, now, uuid, held, processedAlerts, polling, tasks, responses, memoryStore>>

FixNext == FixApplyFix

FixSpec == FixInit /\ [][FixNext]_vars

(***************************************************************************)
(* The store operations called one by one on a service whose queries may   *)
(* be rejected by the connected database.                                  *)
(***************************************************************************)
GetCall(id) == [call |-> "getIncident", id |-> id]
ListCall(filters) == [call |-> "getIncidents", filters |-> filters]

\* a store operation falling back to the in-memory tables on a rejected query
StoreOperationFallingBack(db, c, t, rejected) ==
  LET mem == IF rejected THEN [db EXCEPT !.pool = "null"] ELSE db
  IN CASE c.call = "getIncident"  -> DbGetIncident(mem, c.id)
       [] c.call = "getIncidents" -> DbGetIncidents(mem, c.filters)
       [] OTHER                   -> Exec(mem, c, t)

\* a store operation of DatabaseService; rejected tells whether pool.query
\* rejects (line 379), which no operation catches
StoreOperation(db, c, t, rejected) ==
  IF db.pool # "null" /\ rejected THEN Threw(db, "query_error")
  ELSE CASE c.call = "getIncident"  -> DbGetIncident(db, c.id)
         [] c.call = "getIncidents" -> DbGetIncidents(db, c.filters)
         [] OTHER                   -> Exec(db, c, t)

QryCalled(c, rejected) ==
  LET r == StoreOperation(database, c, now, rejected)
  IN /\ calls < MaxCalls
     /\ lastCall' = [op |-> c.call, id |-> UnknownId, arg |-> c, ret |-> r.ret,
                     threw |-> r.threw, rejected |-> rejected]
     /\ database' = r.db
     /\ calls' = calls + 1
     /\ UNCHANGED <<now, held, processedAlerts, polling, tasks, responses, memoryStore>>

QryCreateIncident ==
  /\ uuid < MaxIncidents
  /\ \E alert \in {AlertMemory, AlertBare}, rejected \in BOOLEAN :
       QryCalled(CreateCall(NewIncident(alert, IncidentId(uuid + 1))), rejected)
  /\ uuid' = uuid + 1

QryUpdateIncident ==
  /\ \E id \in StoredIds(database) \cup {UnknownId},
        updates \in {[status |-> "triaged"], [triageResult |-> Triage1]},
        rejected \in BOOLEAN :
       QryCalled(UpdateCall(id, updates), rejected)
  /\ UNCHANGED uuid

QryGetIncident ==
  /\ \E id \in StoredIds(database) \cup {UnknownId}, rejected \in BOOLEAN :
       QryCalled(GetCall(id), rejected)
  /\ UNCHANGED uuid

QryGetIncidents ==
  /\ \E rejected \in BOOLEAN : QryCalled(ListCall(EmptyObj), rejected)
  /\ UNCHANGED uuid

QryAddTimelineEvent ==
  /\ \E id \in StoredIds(database), rejected \in BOOLEAN :
       QryCalled(TimelineCall(id, <<"triaged">>, [hypothesis |-> Triage1["hypothesis"]]), rejected)
  /\ UNCHANGED uuid

QryAddMemoryRelation ==
  /\ \E id \in StoredIds(database), rejected \in BOOLEAN :
       QryCalled(RelationCall(TriggeredByRelation(AlertMemory, id, now)), rejected)
  /\ UNCHANGED uuid

QryNext ==
  \/ Tick
  \/ QryCreateIncident
  \/ QryUpdateIncident
  \/ QryGetIncident
  \/ QryGetIncidents
  \/ QryAddTimelineEvent
  \/ QryAddMemoryRelation

QrySpec == MgrInit /\ [][QryNext]_vars

(***************************************************************************)
(* Requests in flight together: alert listeners and approve requests       *)
(* interleave await by await.  applyFix is taken in two steps here, its    *)
(* loop over the approved actions and, after the settle wait, its          *)
(* verification; a request waiting there has pc "settle".                  *)
(***************************************************************************)
MaxConcTasks == 3
MaxConcAlerts == 2

ConcAlerts == {AlertMemory}

\* what the ticket system answers during the approved fix
ConcFixEnvs == {[prFails |-> FALSE, jira |-> "created", verify |-> "unknown"]}

VerificationStatuses == {"resolved", "still_firing", "unknown"}

ConcInit ==
  /\ database \in {InitialDatabase("null"), InitialDatabase("pg")}
  /\ now = 0
  /\ uuid = 0
  /\ lastCall = NoCall
  /\ held = <<>>
  /\ calls = 0
  /\ processedAlerts = {}
  /\ polling = FALSE
  /\ tasks = <<>>
  /\ responses = <<>>
  /\ memoryStore = <<>>

\* POST /webhook/prometheus with a body of one alert (lines 228-246)
ConcWebhookPost ==
  /\ Len(tasks) < MaxConcTasks
  /\ uuid < MaxConcAlerts
  /\ \E alert \in ConcAlerts :
       tasks' = EmitAll(tasks, uuid, <<alert>>, now)
  /\ uuid' = uuid + 1
  /\ Respond(200, "webhook")
  /\ UNCHANGED <<database, now, lastCall, held, calls, processedAlerts, polling, memoryStore>>

\* POST /api/approve/{id} for a stored incident arrives (lines 271-277)
ConcApproveReceive ==
  /\ Len(tasks) < MaxConcTasks
  /\ \E id \in StoredIds(database) :
       tasks' = Append(tasks, [NewTask("approve", EmptyObj, id, <<>>)
                                 EXCEPT !.actions = {"create_ticket"}])
  /\ UNCHANGED <<database, now, uuid, lastCall, held, calls, processedAlerts, polling, responses,
                 memoryStore>>

\* the approve handler marking a failed fix as still in progress
FixUpdatesInProgress(fixResult) ==
  [fixResult |-> WithJiraTicket(fixResult),
   status |-> IF fixResult["success"] THEN "resolved" ELSE "in_progress"]

\* the approve handler marking every fix as resolved
FixUpdatesResolved(fixResult) ==
  [fixResult |-> WithJiraTicket(fixResult), status |-> "resolved"]

\* the patch the approve handler stores for a fix result (lines 295-307)
FixUpdates(fixResult) ==
  [fixResult |-> WithJiraTicket(fixResult),
   status |-> IF fixResult["success"] THEN "resolved" ELSE "failed"]

\* applyFix up to its settle wait (part_003 lines 198-287): with a fix applied
\* it waits; with none, or after a throw, it returns at once
ConcApproveApply(i) ==
  /\ tasks[i].kind = "approve" /\ tasks[i].pc = "fix"
  /\ \E env \in ConcFixEnvs :
       LET run == ApplyFixRun(tasks[i].incident, tasks[i].actions, env)
           results == [k \in DOMAIN run \ {"thrown", "verifyIssued", "executed"} |->
                         CASE k = "verificationStatus" -> "pending"
                           [] k = "success" -> FALSE
                           [] OTHER -> run[k]]
       IN IF run.verifyIssued
          THEN tasks' = [tasks EXCEPT ![i].pc = "settle", ![i].result = results]
          ELSE tasks' = [tasks EXCEPT ![i].pc = "update",
                                      ![i].result = WithJiraTicket(results),
                                      ![i].pending = <<UpdateCall(tasks[i].incidentId,
                                                                  FixUpdates(results))>>]
  /\ UNCHANGED <<database, now, uuid, lastCall, held, calls, processedAlerts, polling, responses,
                 memoryStore>>

\* a verification whose failure is raised to the approve handler
ConcApproveVerifyRaising(i) ==
  /\ tasks[i].kind = "approve" /\ tasks[i].pc = "settle"
  /\ \E status \in VerificationStatuses :
       IF status = "unknown"
       THEN /\ tasks' = [tasks EXCEPT ![i].pc = "error"]
            /\ Respond(400, "approve")
       ELSE LET results == [tasks[i].result EXCEPT !["verificationStatus"] = status,
                                                   !["success"] = (status = "resolved")]
            IN /\ tasks' = [tasks EXCEPT ![i].pc = "update",
                                         ![i].result = WithJiraTicket(results),
                                         ![i].pending = <<UpdateCall(tasks[i].incidentId,
                                                                     FixUpdates(results))>>]
               /\ UNCHANGED responses
  /\ UNCHANGED <<database, now, uuid, lastCall, held, calls, processedAlerts, polling, memoryStore>>

\* the settle wait is over: verifyFix answers (part_003 lines 288-291 and
\* 597-627) and the handler builds the patch it will store
ConcApproveVerify(i) ==
  /\ tasks[i].kind = "approve" /\ tasks[i].pc = "settle"
  /\ \E status \in VerificationStatuses :
       LET results == [tasks[i].result EXCEPT !["verificationStatus"] = status,
                                              !["success"] = (status = "resolved")]
       IN tasks' = [tasks EXCEPT ![i].pc = "update",
                                 ![i].result = WithJiraTicket(results),
                                 ![i].pending = <<UpdateCall(tasks[i].incidentId,
                                                             FixUpdates(results))>>]
  /\ UNCHANGED <<database, now, uuid, lastCall, held, calls, processedAlerts, polling, responses,
                 memoryStore>>

ConcNext ==
  \/ ConcWebhookPost
  \/ ConcApproveReceive
  \/ \E i \in 1..Len(tasks) : ApproveGet(i)
  \/ \E i \in 1..Len(tasks) : ConcApproveApply(i)
  \/ \E i \in 1..Len(tasks) : ConcApproveVerify(i)
  \/ \E i \in 1..Len(tasks) : AlertTriage(i)
  \/ \E i \in 1..Len(tasks) : StoreStep(i)

ConcSpec == ConcInit /\ [][ConcNext]_vars

(***************************************************************************)
(* The alert listener with every collaborator able to fail: the notifier,  *)
(* the metrics query and the recent-change lookup.  The event loop runs    *)
(* the continuation of every settled promise, so each pending step of a    *)
(* listener is taken eventually.                                           *)
(***************************************************************************)
MaxPipeAlerts == 1

\* what happens to a notification: the post is accepted or the post fails
Deliveries == {"sent", "failed"}


\* a notifier whose failed post reaches the caller
SendRethrowing(delivery) == [sent |-> delivery = "sent", threw |-> delivery = "failed"]

\* DiscordNotifier.sendAlert / sendTriageResult: the post is made inside a
\* try whose catch only logs (lines 717-732, 821-831)
Send(delivery) == [sent |-> delivery = "sent", threw |-> FALSE]

\* TriageAgent.checkRecentChanges: the commits of the answer, [] when the
\* request fails (lines 163-187)
CheckRecentChanges(answered) == IF answered THEN <<"commit-1">> ELSE <<>>

\* alertEmitter.emit('alert', alert), from the webhook or from a poll
PipeEmit ==
  /\ uuid < MaxPipeAlerts
  /\ \E alert \in Alerts : tasks' = EmitAll(tasks, uuid, <<alert>>, now)
  /\ uuid' = uuid + 1
  /\ UNCHANGED <<database, now, lastCall, held, calls, processedAlerts, polling, responses,
                 memoryStore>>

\* the listener between createIncident and updateIncident (lines 177-190):
\* sendAlert, then triageAlert with its metrics query and change lookup
PipeTriage(i) ==
  /\ tasks[i].kind = "alert" /\ tasks[i].pc = "triage"
  /\ \E delivery \in Deliveries, metricsOk \in BOOLEAN, answered \in BOOLEAN :
       LET sent == Send(delivery)
           triageResult == TriageAlert(tasks[i].alert, metricsOk, CheckRecentChanges(answered))
           updates == [triageResult |-> triageResult, status |-> "triaged"]
       IN IF sent.threw
          THEN /\ tasks' = [tasks EXCEPT ![i] = [@ EXCEPT !.pc = "error"]
                                                 @@ [alertSent |-> FALSE]]
               /\ UNCHANGED memoryStore
          ELSE /\ tasks' = [tasks EXCEPT
                              ![i] = [@ EXCEPT !.pc = "update", !.result = triageResult,
                                               !.pending = <<UpdateCall(tasks[i].incidentId,
                                                                        updates)>>]
                                     @@ [alertSent |-> sent.sent]]
               /\ memoryStore' = Append(memoryStore,
                                        MemoryEntry(tasks[i].alert, triageResult, now))
  /\ UNCHANGED <<database, now, uuid, lastCall, held, calls, processedAlerts, polling, responses>>

\* the listener after updateIncident (lines 193-201): sendTriageResult
PipeSendTriageResult(i) ==
  /\ tasks[i].kind = "alert" /\ tasks[i].pc = "done"
  /\ "resultSent" \notin DOMAIN tasks[i]
  /\ \E delivery \in Deliveries :
       LET sent == Send(delivery)
       IN tasks' = [tasks EXCEPT ![i] = [@ EXCEPT !.pc = IF sent.threw THEN "error" ELSE "done"]
                                        @@ [resultSent |-> sent.sent]]
  /\ UNCHANGED <<database, now, uuid, lastCall, held, calls, processedAlerts, polling, responses,
                 memoryStore>>

PipeStep ==
  \E i \in 1..Len(tasks) : PipeTriage(i) \/ StoreStep(i) \/ PipeSendTriageResult(i)

PipeNext ==
  \/ PipeEmit
  \/ \E i \in 1..Len(tasks) : PipeTriage(i)
  \/ \E i \in 1..Len(tasks) : StoreStep(i)
  \/ \E i \in 1..Len(tasks) : PipeSendTriageResult(i)

PipeSpec == ConcInit /\ [][PipeNext]_vars /\ WF_vars(PipeStep)

(***************************************************************************)
(* The relation graph read through the IncidentManager: incidents are      *)
(* created, linked and their related incidents read, one call at a time.   *)
(***************************************************************************)
MaxLinkCalls == 4

Relationships == {"duplicate_of", "caused_by"}

LinkCalled(op, id, arg, r) ==
  /\ calls < MaxLinkCalls
  /\ Called(op, id, arg, r)
  /\ UNCHANGED <<now, processedAlerts, polling, tasks, responses, memoryStore>>

LinkCreateIncident ==
  /\ uuid < MaxIncidents
  /\ LinkCalled("createIncident", IncidentId(uuid + 1), AlertMemory,
                CreateIncident(database, AlertMemory, IncidentId(uuid + 1), now))
  /\ uuid' = uuid + 1

LinkLinkIncidents ==
  /\ \E a \in StoredIds(database), b \in StoredIds(database), relationship \in Relationships :
       LinkCalled("linkIncidents", a, [related |-> b, relationship |-> relationship],
                  LinkIncidents(database, a, b, relationship, now))
  /\ UNCHANGED uuid

LinkGetRelatedIncidents ==
  /\ \E id \in StoredIds(database) \cup {UnknownId} :
       LinkCalled("getRelatedIncidents", id, EmptyObj,
                  Ok(database, GetRelatedIncidents(database, id)))
  /\ UNCHANGED uuid

LinkNext ==
  \/ Tick
  \/ LinkCreateIncident
  \/ LinkLinkIncidents
  \/ LinkGetRelatedIncidents

LinkSpec == MgrInit /\ [][LinkNext]_vars

(***************************************************************************)
(* Reports.  The store is filled call by call, so that a timeline may lack *)
(* any of its events, and generateReport is called on what is there.       *)
(***************************************************************************)
MaxReportClock == 2
MaxReportEvents == 3
MaxReports == 1

ReportEventTypes == {<<"incident_created">>, <<"triaged">>, <<"resolved">>}

RepTick ==
  /\ now < MaxReportClock
  /\ now' = now + 1
  /\ UNCHANGED <<database, uuid, lastCall, held, calls, processedAlerts, polling, tasks, responses,
                 memoryStore>>

RepStore(c) ==
  LET r == Exec(database, c, now)
  IN /\ database' = r.db
     /\ held' = HeldAfter(held, r.db)
     /\ lastCall' = [op |-> c.call, id |-> UnknownId, arg |-> c, ret |-> r.ret, threw |-> r.threw]
     /\ UNCHANGED <<now, calls, processedAlerts, polling, tasks, responses, memoryStore>>

RepCreateIncident ==
  /\ calls = 0
  /\ uuid < MaxIncidents
  /\ RepStore(CreateCall(NewIncident(AlertMemory, IncidentId(uuid + 1))))
  /\ uuid' = uuid + 1

RepAddTimelineEvent ==
  /\ calls = 0
  /\ Len(Storage(database).timeline) < MaxReportEvents
  /\ \E id \in StoredIds(database), eventType \in ReportEventTypes :
       RepStore(TimelineCall(id, eventType, EmptyObj))
  /\ UNCHANGED uuid

RepGenerateReport ==
  /\ calls < MaxReports
  /\ \E id \in StoredIds(database) \cup {UnknownId} :
       LET r == GenerateReport(database, id)
       IN lastCall' = [op |-> "generateReport", id |-> id, arg |-> EmptyObj,
                       ret |-> r.ret, threw |-> r.threw]
  /\ calls' = calls + 1
  /\ UNCHANGED <<database, now, uuid, held, processedAlerts, polling, tasks, responses, memoryStore>>

RepNext ==
  \/ RepTick
  \/ RepCreateIncident
  \/ RepAddTimelineEvent
  \/ RepGenerateReport

RepSpec == MgrInit /\ [][RepNext]_vars

(***************************************************************************)
(* The WatcherAgent alone: poll cycles that may overlap (a cycle waits for *)
(* its GET while the timer starts the next), injectAlert, stop and         *)
(* initialize.  A poll cycle in flight is a task of kind "poll"; every     *)
(* emitted 'alert' event is a task of kind "alert".                        *)
(***************************************************************************)
MaxPolls == 2
MaxInjects == 2

PrometheusCPU ==
  [labels |-> [alertname |-> "HighCPULoad", severity |-> "warning"],
   annotations |-> EmptyObj,
   state |-> "firing", activeAt |-> "t0"]

\* a firing alert of a malformed answer: it has no labels
PrometheusNoLabels == [state |-> "firing", activeAt |-> "t0"]

\* what GET /api/v1/alerts answers to the watcher
WatchResponses ==
  PollResponses
  \cup { [ok |-> TRUE, alerts |-> <<PrometheusFiring, PrometheusFiring>>],
         [ok |-> TRUE, alerts |-> <<PrometheusCPU, PrometheusFiring>>],
         [ok |-> TRUE, alerts |-> <<PrometheusCPU, PrometheusNoLabels, PrometheusFiring>>] }

\* the alerts handed to injectAlert: one carries the fingerprint the poll
\* computes for PrometheusFiring
InjectedAlerts ==
  {AlertMemory, AlertCPU,
   [AlertMemory EXCEPT !.fingerprint = GenerateFingerprint(PrometheusFiring)]}

\* injectAlert (lines 92-98): the alerts it emits
InjectAlert(alert, processed) ==
  IF GetS(alert, "fingerprint") \notin processed THEN <<alert>> ELSE <<>>

PollsStarted == Len(SelectSeq(tasks, LAMBDA t : t.kind = "poll"))

WatchInit ==
  /\ database = InitialDatabase("null")
  /\ now = 0
  /\ uuid = 0
  /\ lastCall = NoCall
  /\ held = <<>>
  /\ calls = 0
  /\ processedAlerts = {}
  /\ polling = FALSE
  /\ tasks = <<>>
  /\ responses = <<>>
  /\ memoryStore = <<>>

\* the interval timer fires: the callback issues its GET (lines 47-49)
WatchPollStart ==
  /\ polling
  /\ PollsStarted < MaxPolls
  /\ tasks' = Append(tasks, [kind |-> "poll", pc |-> "get", response |-> <<>>, threw |-> FALSE])
  /\ UNCHANGED <<database, now, uuid, lastCall, held, calls, processedAlerts, polling, responses,
                 memoryStore>>

\* a poll callback whose error ends the polling
WatchPollAnswerStopping(i) ==
  /\ tasks[i].kind = "poll" /\ tasks[i].pc = "get"
  /\ \E response \in WatchResponses :
       LET emitted == IF response.ok THEN NewFiring(response.alerts, processedAlerts) ELSE <<>>
       IN /\ processedAlerts' = processedAlerts \cup {emitted[j].fingerprint : j \in 1..Len(emitted)}
          /\ tasks' = EmitAll([tasks EXCEPT ![i].pc = "done", ![i].response = response.alerts,
                                            ![i].threw = PollThrows(response)],
                              uuid, emitted, now)
          /\ uuid' = uuid + Len(emitted)
          /\ polling' = (polling /\ ~PollThrows(response))
  /\ UNCHANGED <<database, now, lastCall, held, calls, responses, memoryStore>>

\* the GET of cycle i is answered and the callback runs to its end (lines
\* 49-74): whatever is thrown is caught and logged there
WatchPollAnswer(i) ==
  /\ tasks[i].kind = "poll" /\ tasks[i].pc = "get"
  /\ \E response \in WatchResponses :
       LET emitted == IF response.ok THEN NewFiring(response.alerts, processedAlerts) ELSE <<>>
       IN /\ processedAlerts' = processedAlerts \cup {emitted[j].fingerprint : j \in 1..Len(emitted)}
          /\ tasks' = EmitAll([tasks EXCEPT ![i].pc = "done", ![i].response = response.alerts,
                                            ![i].threw = PollThrows(response)],
                              uuid, emitted, now)
          /\ uuid' = uuid + Len(emitted)
  /\ UNCHANGED <<database, now, lastCall, held, calls, polling, responses, memoryStore>>

\* injectAlert(alert) (lines 92-98)
WatchInjectAlert ==
  /\ calls < MaxInjects
  /\ \E alert \in InjectedAlerts :
       LET emitted == InjectAlert(alert, processedAlerts)
       IN /\ processedAlerts' = processedAlerts \cup {emitted[j]["fingerprint"] : j \in 1..Len(emitted)}
          /\ tasks' = EmitAll(tasks, uuid, emitted, now)
          /\ uuid' = uuid + Len(emitted)
          /\ lastCall' = [op |-> "injectAlert", id |-> UnknownId, arg |-> alert,
                          ret |-> [emitted |-> Len(emitted)], threw |-> ""]
  /\ calls' = calls + 1
  /\ UNCHANGED <<database, now, held, polling, responses, memoryStore>>

\* stop() (lines 83-89): the timer is cleared, cycles in flight go on
WatchStop ==
  /\ polling
  /\ polling' = FALSE
  /\ UNCHANGED <<database, now, uuid, lastCall, held, calls, processedAlerts, tasks, responses,
                 memoryStore>>

\* initialize() with a Prometheus URL configured (lines 32-43)
WatchInitialize ==
  /\ ~polling
  /\ polling' = TRUE
  /\ UNCHANGED <<database, now, uuid, lastCall, held, calls, processedAlerts, tasks, responses,
                 memoryStore>>

WatchNext ==
  \/ WatchPollStart
  \/ \E i \in 1..Len(tasks) : WatchPollAnswer(i)
  \/ WatchInjectAlert
  \/ WatchStop
  \/ WatchInitialize

WatchSpec == WatchInit /\ [][WatchNext]_vars

(***************************************************************************)
(* Properties                                                              *)
(***************************************************************************)
Incidents == Storage(database).incidents

StatusOf(db, id) == StoredIncident(db, id)["status"]

\* the number of events of one type the store holds for an incident
CountEvents(db, id, eventType) ==
  Cardinality({i \in 1..Len(Storage(db).timeline) :
                 /\ Storage(db).timeline[i]["incident_id"] = id
                 /\ Storage(db).timeline[i]["event_type"] = eventType})

\* the number of status_changed_to_* events the store holds for an incident
CountStatusChanged(db, id) ==
  Cardinality({i \in 1..Len(Storage(db).timeline) :
                 /\ Storage(db).timeline[i]["incident_id"] = id
                 /\ Storage(db).timeline[i]["event_type"][1] = "status_changed_to_"})

CountRelations(db, id, relationship) ==
  Cardinality({i \in 1..Len(Storage(db).relations) :
                 /\ Storage(db).relations[i]["entity_id"] = id
                 /\ Storage(db).relations[i]["relationship"] = relationship})

\* C1: across the webhook and the poll loop, at no time do two incidents
\* exist for the same fingerprint: alerts that share a fingerprint result in
\* exactly one incident.
C1_OneIncidentPerFingerprint ==
  \A i, j \in 1..Len(Incidents) :
    Incidents[i]["alert_id"] = Incidents[j]["alert_id"] => i = j

\* C2: once an incident's status is resolved or failed, no later call changes
\* it to a non-terminal status.
C2_TerminalStatusStays ==
  [][\A id \in StoredIds(database) :
       StatusOf(database, id) \in TerminalStatuses
         => StatusOf(database', id) \in TerminalStatuses]_vars

StateMachineEdges ==
  { <<"new", "triaged">>, <<"triaged", "in_progress">>,
    <<"in_progress", "resolved">>, <<"in_progress", "failed">> }

\* C3: every status change the pipeline applies follows an edge of
\* new -> triaged -> in_progress -> {resolved | failed}: triaged only from
\* new, resolved or failed only from in_progress.
C3_PipelineFollowsStateMachine ==
  [][\A id \in StoredIds(database) :
       StatusOf(database', id) # StatusOf(database, id)
         => <<StatusOf(database, id), StatusOf(database', id)>> \in StateMachineEdges]_vars

\* C4: the incident createIncident returns has status new, for every alert.
C4_CreatedStatusIsNew ==
  (lastCall.op = "createIncident" /\ lastCall.threw = "")
    => GetS(lastCall.ret, "status") = "new"

\* whether a patch carries an attachment under either spelling
Attaches(updates, camelCase, snake_case) ==
  TruthyO(GetO(updates, camelCase)) \/ TruthyO(GetO(updates, snake_case))

\* C5: an updateIncident or resolveIncident on an incident appends exactly
\* one status_changed_to_<status> event for the status change it makes, one
\* triaged event for a triage result it attaches and one fix_applied event
\* for a fix result it attaches, whichever spelling the patch uses.
C5_OneEventPerFacet ==
  [][(/\ calls' = calls + 1
      /\ lastCall'.op \in {"updateIncident", "resolveIncident"}
      /\ lastCall'.id \in StoredIds(database))
     => LET id == lastCall'.id
            updates == IF lastCall'.op = "resolveIncident"
                       THEN ResolveUpdates(lastCall'.arg) ELSE lastCall'.arg
            added(eventType) == CountEvents(database', id, eventType)
                                  - CountEvents(database, id, eventType)
        IN /\ lastCall'.threw = ""
           /\ added(<<"triaged">>)
                = IF Attaches(updates, "triageResult", "triage_result") THEN 1 ELSE 0
           /\ added(<<"fix_applied">>)
                = IF Attaches(updates, "fixResult", "fix_result") THEN 1 ELSE 0
           /\ \A st \in Statuses :
                added(<<"status_changed_to_", st>>)
                  = IF GetS(updates, "status") = st /\ StatusOf(database, id) # st
                    THEN 1 ELSE 0]_vars

\* C6: for every incident, the number of status_changed_to_* events in its
\* timeline equals the number of distinct status values it has held, not
\* counting its initial status.
C6_StatusEventsCountStatusesHeld ==
  \A id \in StoredIds(database) :
    CountStatusChanged(database, id) = Cardinality(Range(held[id]) \ {held[id][1]})

\* C7: updateIncident with an id that names no incident returns null without
\* raising, for every patch, appends no timeline event and creates no incident.
C7_UpdateUnknownReturnsNull ==
  /\ (lastCall.op = "updateIncident" /\ lastCall.id = UnknownId)
       => lastCall.threw = "" /\ lastCall.ret = NullObj
  /\ SelectSeqBy(Storage(database).timeline, "incident_id", UnknownId) = <<>>
  /\ UnknownId \notin StoredIds(database)

\* C8: createIncident takes the summary from annotations.summary and the
\* severity from labels.severity, uses "Unknown Alert" and "warning" exactly
\* when the alert carries no such value, and returns an id starting with "inc-".
C8_SummaryAndSeverityDerivation ==
  (lastCall.op = "createIncident" /\ lastCall.threw = "")
    => /\ GetS(lastCall.ret, "summary")
            = OrS(AnnotationOf(lastCall.arg, "summary"), "Unknown Alert")
       /\ GetS(lastCall.ret, "severity")
            = OrS(LabelOf(lastCall.arg, "severity"), "warning")
       /\ lastCall.ret["id"][1] = "inc-"

\* C9: every successful createIncident persists the incident, appends exactly
\* one incident_created event, which is the first event of the incident's
\* timeline, and records exactly one triggered_by relation from the incident
\* to the originating alert; no other operation appends an incident_created
\* event.
C9_CreateRecordsEventAndRelation ==
  /\ (lastCall.op = "createIncident" /\ lastCall.threw = "")
       => /\ lastCall.id \in StoredIds(database)
          /\ lastCall.ret["id"] = lastCall.id
          /\ \E i \in 1..Len(Storage(database).relations) :
               LET rel == Storage(database).relations[i]
               IN /\ rel["entity_id"] = lastCall.id
                  /\ rel["relationship"] = "triggered_by"
                  /\ rel["related_type"] = "alert"
                  /\ rel["related_id"]
                       = OrS(GetS(lastCall.arg, "id"), GetS(lastCall.arg, "fingerprint"))
  /\ \A id \in StoredIds(database) :
       /\ CountEvents(database, id, <<"incident_created">>) = 1
       /\ GetTimeline(database, id)[1]["event_type"] = <<"incident_created">>
       /\ CountRelations(database, id, "triggered_by") = 1
  /\ \A i \in 1..Len(Storage(database).timeline) :
       Storage(database).timeline[i]["event_type"] = <<"incident_created">>
         => Storage(database).timeline[i]["incident_id"] \in StoredIds(database)

\* the creation of a second incident, after the status of a stored incident
\* was changed once
C9_Witness ==
  /\ lastCall.op = "createIncident" /\ lastCall.threw = ""
  /\ Len(Incidents) = 2
  /\ \E id \in StoredIds(database) :
       /\ Len(GetTimeline(database, id)) >= 2
       /\ CountStatusChanged(database, id) = 1

\* C10: the values updateIncident and getIncident return carry both
\* spellings of an attachment that was set, populated identically and equal
\* to the value stored; labels and annotations come back equal to what was
\* stored.
C10_BothSpellingsReturned ==
  /\ (lastCall.op \in {"updateIncident", "getIncident"} /\ lastCall.threw = ""
        /\ ~NotFound(lastCall.ret))
       => /\ Attaches(lastCall.ret, "triageResult", "triage_result")
               => GetO(lastCall.ret, "triageResult") = GetO(lastCall.ret, "triage_result")
          /\ Attaches(lastCall.ret, "fixResult", "fix_result")
               => GetO(lastCall.ret, "fixResult") = GetO(lastCall.ret, "fix_result")
          /\ lastCall.op = "updateIncident"
               => /\ Attaches(lastCall.arg, "triageResult", "triage_result")
                       => GetO(lastCall.ret, "triage_result")
                            \in {GetO(lastCall.arg, "triageResult"),
                                 GetO(lastCall.arg, "triage_result")} \ {UndefObj}
                  /\ Attaches(lastCall.arg, "fixResult", "fix_result")
                       => GetO(lastCall.ret, "fix_result")
                            \in {GetO(lastCall.arg, "fixResult"),
                                 GetO(lastCall.arg, "fix_result")} \ {UndefObj}
  /\ (lastCall.op = "createIncident" /\ lastCall.threw = "")
       => /\ GetO(lastCall.ret, "labels") = OrO(GetO(lastCall.arg, "labels"), EmptyObj)
          /\ GetO(lastCall.ret, "annotations") = OrO(GetO(lastCall.arg, "annotations"), EmptyObj)

\* the ids of the stored incidents a filter selects
MatchingIds(db, filters) ==
  {i["id"] : i \in Range(FilterIncidents(Storage(db).incidents, filters))}

\* C11: getIncidents(filter) returns exactly the stored incidents whose status
\* and severity equal the ones the filter gives, all stored incidents when
\* the filter gives none, each once, newest-created first.
C11_ListIsFilteredAndNewestFirst ==
  (lastCall.op = "getIncidents" /\ lastCall.threw = "")
    => LET rows == lastCall.ret
       IN /\ {rows[i]["id"] : i \in 1..Len(rows)} = MatchingIds(database, lastCall.arg)
          /\ Len(rows) = Cardinality(MatchingIds(database, lastCall.arg))
          /\ \A i \in 1..Len(rows) : \A j \in i..Len(rows) :
               rows[i]["created_at"] >= rows[j]["created_at"]

\* C12: when DATABASE_URL is configured and the connection test of connect()
\* fails, connect() does not raise and leaves the service without a pool;
\* every later operation works on the in-memory storage: what it creates is
\* there, with its event and its relation, and the durable storage is never
\* touched.
C12_FallbackToInMemory ==
  (calls > 0 /\ database.env.configured /\ ~database.env.reachable)
    => /\ database.pool = "null"
       /\ database.pg = InitialStorage
       /\ lastCall.op = "connect" => lastCall.threw = ""
       /\ Len(database.inMemoryStorage.incidents) = uuid
       /\ Len(database.inMemoryStorage.relations) = uuid
       /\ Len(database.inMemoryStorage.timeline) >= uuid
       /\ (lastCall.op = "createIncident" /\ lastCall.threw = "")
            => lastCall.ret = database.inMemoryStorage.incidents[uuid]
       /\ (lastCall.op = "getIncidents" /\ lastCall.threw = "")
            => Len(lastCall.ret) = uuid

\* after a failed connection test an incident was created and then read
C12_Witness ==
  /\ database.env.configured /\ ~database.env.reachable
  /\ lastCall.op \in {"getIncident", "getIncidents", "getTimeline"}
  /\ uuid > 0
  /\ Len(database.inMemoryStorage.timeline) >= uuid

\* the fields of an incident that hold a value, its timestamps left out
FieldsSet(incident) ==
  LET keys == {k \in DOMAIN incident \ {"created_at", "updated_at"} :
                 IF k \in ObjectKeys THEN incident[k] \notin {UndefObj, NullObj}
                 ELSE k \in StructuredKeys \/ incident[k] \notin {Undef, Null}}
  IN [k \in keys |-> incident[k]]

\* C13: run through the same sequence (create, two updates, timeline read),
\* the in-memory and the durable backend give timelines with the same
\* event_type sequence and the same final incident fields, timestamps
\* excluded, for every pair of patches, patches with fields outside the
\* incident columns and updates of an unknown id included.
C13_BackendsAgree ==
  lastCall.op = "sequence"
    => /\ lastCall.ret.memory.eventTypes = lastCall.ret.durable.eventTypes
       /\ FieldsSet(lastCall.ret.memory.incident) = FieldsSet(lastCall.ret.durable.incident)

ActionsToApply ==
  IF "suggestedActions" \in DOMAIN lastCall.arg.triageResult
  THEN FilterActions(lastCall.arg.triageResult["suggestedActions"], lastCall.arg.approvedActions)
  ELSE <<>>

\* C15: in applyFix the failure of one approved action does not abort the
\* batch: whatever fails (pull-request creation included), every other
\* approved action still executes and its outcome is in appliedFixes.
C15_FailureDoesNotAbortBatch ==
  lastCall.op = "applyFix"
    => \A i \in 1..Len(ActionsToApply) :
         LET outcome == AppliedFix(ActionsToApply[i], lastCall.arg.env)
         IN outcome # <<>>
              => \E j \in 1..Len(lastCall.ret.appliedFixes) :
                   lastCall.ret.appliedFixes[j] = outcome[1]

\* C16: every FixResult applyFix returns has success true exactly when its
\* verificationStatus is resolved, on the error path as on the others.
C16_SuccessIffResolved ==
  lastCall.op = "applyFix"
    => (lastCall.ret.success <=> lastCall.ret.verificationStatus = "resolved")

\* an applyFix that applied a fix and then went through its catch block
C16_Witness ==
  /\ lastCall.op = "applyFix"
  /\ lastCall.effects.thrown
  /\ lastCall.ret.appliedFixes # <<>>
  /\ ~lastCall.ret.success
  /\ lastCall.ret.verificationStatus # "resolved"

\* C17: in applyFix, when no fix was applied verification is not issued and
\* verificationStatus stays pending; when at least one fix was applied
\* verification is issued and verificationStatus ends as resolved,
\* still_firing or unknown; approving create_ticket alone, for a triage result
\* that suggests a ticket, gives exactly one applied fix, of ticket type.
C17_VerificationFollowsAppliedFixes ==
  lastCall.op = "applyFix"
    => /\ lastCall.ret.appliedFixes = <<>>
            => /\ ~lastCall.effects.verifyIssued
               /\ lastCall.ret.verificationStatus = "pending"
       /\ lastCall.ret.appliedFixes # <<>>
            => /\ lastCall.effects.verifyIssued
               /\ lastCall.ret.verificationStatus \in {"resolved", "still_firing", "unknown"}
       /\ (lastCall.arg.approvedActions = {"create_ticket"} /\ Len(ActionsToApply) = 1)
            => /\ Len(lastCall.ret.appliedFixes) = 1
               /\ lastCall.ret.appliedFixes[1].type = "jira_ticket"

\* C18: POST /webhook/prometheus answers 200 to every body that is valid
\* JSON, an object or not, with a list of alerts or not, and 400 only to a
\* body that is not valid JSON; what happens to the alerts afterwards does
\* not change the response already given.
C18_WebhookResponseFollowsJSONValidity ==
  [][\A body \in WebhookBodies :
       WebhookPostOf(body)
         => /\ responses'[Len(responses')].status = (IF ParsesAsJSON(body) THEN 200 ELSE 400)
            /\ SubSeq(responses', 1, Len(responses)) = responses]_vars

\* an approve request for the incident id was received
ApprovalReceived(id) ==
  \E i \in 1..Len(tasks) : tasks[i].kind = "approve" /\ tasks[i].incidentId = id

\* the approve requests whose id names no incident
UnknownApprovals ==
  {i \in 1..Len(tasks) : tasks[i].kind = "approve" /\ ~HasIncident(database, tasks[i].incidentId)}

\* C19: POST /api/approve/{id} with a body {actions} for an id that names no
\* incident answers 404 and changes nothing: the request never reaches
\* applyFix or updateIncident, and the store is left as it was; getIncident
\* of an unknown id returns undefined and GET /api/incidents/{id} of an
\* unknown id answers 404.
C19_UnknownIncidentIsReportedAbsent ==
  [][/\ \A i \in UnknownApprovals :
          /\ tasks'[i].pc \in {"get", "done"}
          /\ tasks'[i].result = UndefObj
          /\ ApproveGet(i)
               => /\ responses' = Append(responses, [status |-> 404, route |-> "approve"])
                  /\ database' = database
                  /\ tasks'[i].pc = "done"
     /\ GetIncident(database', UnknownId).ret = UndefObj
     /\ IncidentsGetOf(UnknownId)
          => /\ responses' = Append(responses, [status |-> 404, route |-> "incidents"])
             /\ database' = database]_vars

\* an approve request for an unknown id has been answered 404, and so has a
\* GET for one, while the store holds an incident
C19_Witness ==
  /\ \E i \in UnknownApprovals : tasks[i].pc = "done"
  /\ StoredIds(database) # {}
  /\ \E j \in 1..Len(responses) : responses[j] = [status |-> 404, route |-> "approve"]
  /\ \E j \in 1..Len(responses) : responses[j] = [status |-> 404, route |-> "incidents"]

\* the incident has a fix result or is in a status only remediation gives
Remediated(id) ==
  LET incident == GetIncident(database, id).ret
  IN \/ TruthyO(GetO(incident, "fixResult"))
     \/ TruthyO(GetO(incident, "fix_result"))
     \/ incident["status"] \in TerminalStatuses

\* C20: remediation proceeds only after an explicit approval: an incident
\* has no fix result and is neither resolved nor failed unless an approve
\* request for it was received before, and applyFix runs only inside such a
\* request.
C20_RemediationOnlyAfterApproval ==
  /\ \A id \in StoredIds(database) : Remediated(id) => ApprovalReceived(id)
  /\ \A i \in 1..Len(tasks) : tasks[i].pc = "fix" => tasks[i].kind = "approve"

\* an incident is triaged, every task has finished and no approval for the
\* incident was received: nothing but a new request moves it on
C20_Witness ==
  /\ \A i \in 1..Len(tasks) : tasks[i].pc = "done"
  /\ \E id \in StoredIds(database) :
       /\ GetIncident(database, id).ret["status"] = "triaged"
       /\ ~ApprovalReceived(id)

\* the fingerprints of the 'alert' events emitted so far, in order
EmittedFingerprints(ts) ==
  LET alerts == SelectSeq(ts, LAMBDA t : t.kind = "alert")
  IN [j \in 1..Len(alerts) |-> GetS(alerts[j].alert, "fingerprint")]

\* C21: the watcher emits 'alert' at most once per fingerprint, however poll
\* cycles (overlapping ones included) and injectAlert calls interleave: every
\* step that emits for a fingerprint finds it untracked and tracks it in the
\* same step, a tracked fingerprint emits nothing, and no fingerprint ever
\* leaves the processed set, not on stop() and not when the alert is no
\* longer reported as firing.
C21_AtMostOneEmitPerFingerprint ==
  [][LET before == EmittedFingerprints(tasks)
         after == EmittedFingerprints(tasks')
     IN /\ \A j, k \in 1..Len(after) : after[j] = after[k] => j = k
        /\ processedAlerts \subseteq processedAlerts'
        /\ SubSeq(after, 1, Len(before)) = before
        /\ \A j \in (Len(before) + 1)..Len(after) :
             after[j] \notin processedAlerts /\ after[j] \in processedAlerts'
        /\ processedAlerts' = processedAlerts \cup {after[j] : j \in (Len(before) + 1)..Len(after)}]_vars

\* after stop(), with the polled alert emitted once by one of two finished
\* poll cycles that both saw it firing, injectAlert with the same fingerprint
\* emitted nothing
C21_Witness ==
  /\ ~polling
  /\ lastCall.op = "injectAlert"
  /\ lastCall.arg["fingerprint"] = GenerateFingerprint(PrometheusFiring)
  /\ lastCall.ret.emitted = 0
  /\ Len(SelectSeq(tasks, LAMBDA t : t.kind = "poll" /\ t.pc = "done"
                                      /\ \E j \in 1..Len(t.response) : t.response[j] = PrometheusFiring)) = 2
  /\ Len(SelectSeq(EmittedFingerprints(tasks),
                   LAMBDA f : f = GenerateFingerprint(PrometheusFiring))) = 1

\* C22: the status_changed_to_<status> event that updateIncident appends
\* records as previousStatus the status the incident held immediately before
\* the update and as newStatus the status of the patch.
C22_StatusEventRecordsPreviousStatus ==
  [][(/\ calls' = calls + 1
      /\ lastCall'.op = "updateIncident"
      /\ lastCall'.id \in StoredIds(database)
      /\ lastCall'.threw = ""
      /\ TruthyS(GetS(lastCall'.arg, "status")))
     => LET event == Storage(database').timeline[Len(Storage(database).timeline) + 1]
        IN /\ event["incident_id"] = lastCall'.id
           /\ event["event_type"] = <<"status_changed_to_", lastCall'.arg["status"]>>
           /\ event["event_data"]["newStatus"] = lastCall'.arg["status"]
           /\ event["event_data"]["previousStatus"] = StatusOf(database, lastCall'.id)]_vars

\* C23: the incident mutation and its timeline event are one step: in no
\* reachable state, the states between two store calls of one manager call
\* included, does an incident exist without its incident_created event, hold
\* a status it was moved to without the status_changed_to_<status> event, or
\* hold a triage or fix attachment without its triaged or fix_applied event.
C23_MutationAndEventAreOneStep ==
  \A id \in StoredIds(database) :
    LET incident == GetIncident(database, id).ret
    IN /\ CountEvents(database, id, <<"incident_created">>) >= 1
       /\ incident["status"] \in Statuses
            => CountEvents(database, id, <<"status_changed_to_", incident["status"]>>) >= 1
       /\ TruthyO(GetO(incident, "triageResult"))
            => CountEvents(database, id, <<"triaged">>) >= 1
       /\ TruthyO(GetO(incident, "fixResult"))
            => CountEvents(database, id, <<"fix_applied">>) >= 1

\* seq continues prefix: what was appended is unchanged and in place
IsPrefix(prefix, seq) ==
  Len(prefix) <= Len(seq) /\ SubSeq(seq, 1, Len(prefix)) = prefix

C25_QueryFailureIsRaised ==
  [][(calls' = calls + 1 /\ database.pool = "pg" /\ lastCall'.rejected)
       => /\ lastCall'.threw # ""
          /\ lastCall'.ret = UndefObj
          /\ database' = database]_vars

\* an update of a stored incident was rejected by the connected database
C25_Witness ==
  /\ lastCall.op = "updateIncident"
  /\ lastCall.rejected
  /\ lastCall.threw # ""
  /\ database.pool = "pg"
  /\ lastCall.arg.id \in StoredIds(database)


\* the hypothesis call of the last step, and what it gives without any context
HypothesisCall == lastCall.op = "generateHypothesis"
BareHypothesis == GenerateHypothesis(lastCall.arg.alert, <<>>, <<>>)
NameSignals(alert, part) == Contains(LabelOf(alert, "alertname"), part)

\* C26: hypothesis generation starts from primaryCause "Unknown" with
\* confidence 0; an alert whose name signals a memory condition gets the cause
\* memory exhaustion or leak with confidence 0.8, otherwise an alert whose name
\* signals CPU gets the cause CPU utilization with confidence 0.75; the memory
\* rule wins when both apply.
C26_MemoryRuleThenCPURule ==
  HypothesisCall
    => LET alert == lastCall.arg.alert
           bare == lastCall.arg.changes = <<>> /\ lastCall.arg.runbooks = <<>>
           ret == lastCall.ret
       IN /\ NameSignals(alert, "Memory")
               => /\ ret.primaryCause = "Memory exhaustion or leak"
                  /\ bare => ret.confidence = 80
          /\ (~NameSignals(alert, "Memory") /\ NameSignals(alert, "CPU"))
               => /\ ret.primaryCause = "High CPU utilization"
                  /\ bare => ret.confidence = 75
          /\ (/\ ~NameSignals(alert, "Memory") /\ ~NameSignals(alert, "CPU")
              /\ GetS(alert, "severity") # "critical")
               => /\ ret.primaryCause = "Unknown"
                  /\ bare => ret.confidence = 0 /\ ret.evidence = <<>>

\* a hypothesis for an alert whose name signals both memory and CPU
C26_Witness ==
  /\ HypothesisCall
  /\ NameSignals(lastCall.arg.alert, "Memory") /\ NameSignals(lastCall.arg.alert, "CPU")
  /\ lastCall.arg.changes = <<>> /\ lastCall.arg.runbooks = <<>>
  /\ lastCall.ret.primaryCause = "Memory exhaustion or leak"
  /\ lastCall.ret.confidence = 80

\* C27: for an alert whose name signals neither memory nor CPU and whose
\* severity, carried in its labels, is critical, hypothesis generation gives
\* the cause service outage with base confidence 0.7.
C27_CriticalLabelGivesServiceOutage ==
  (/\ HypothesisCall
   /\ ~NameSignals(lastCall.arg.alert, "Memory") /\ ~NameSignals(lastCall.arg.alert, "CPU")
   /\ LabelOf(lastCall.arg.alert, "severity") = "critical")
    => /\ lastCall.ret.primaryCause = "Service outage or critical failure"
       /\ (lastCall.arg.changes = <<>> /\ lastCall.arg.runbooks = <<>>)
            => lastCall.ret.confidence = 70

\* C28: a recent change adds 0.1 to the confidence and one evidence line; a
\* runbook match adds 0.1 and one evidence line with the count and replaces
\* the suggested fix by the first step of the first matched runbook; each
\* addition is capped at 1.0, so the confidence always lies between 0 and 1.
C28_BonusesAreCappedAndRecorded ==
  HypothesisCall
    => LET changes == lastCall.arg.changes
           runbooks == lastCall.arg.runbooks
           base == BareHypothesis
           afterChange == IF changes # <<>> THEN Min(base.confidence + 10, 100)
                          ELSE base.confidence
           changeLines == IF changes # <<>> THEN << <<"Recent commit: ", changes[1]>> >> ELSE <<>>
           runbookLines == IF runbooks # <<>>
                           THEN << <<"Found ", Len(runbooks), " relevant runbook(s)">> >>
                           ELSE <<>>
           ret == lastCall.ret
       IN /\ ret.confidence = (IF runbooks # <<>> THEN Min(afterChange + 10, 100) ELSE afterChange)
          /\ ret.evidence = base.evidence \o changeLines \o runbookLines
          /\ ret.suggestedFix = (IF runbooks # <<>> THEN runbooks[1].firstStep
                                 ELSE base.suggestedFix)
          /\ ret.primaryCause = base.primaryCause
          /\ ret.confidence >= 0 /\ ret.confidence <= 100

\* a memory alert with a recent change and a runbook match: 0.8 + 0.1 + 0.1
C28_Witness ==
  /\ HypothesisCall
  /\ lastCall.arg.changes # <<>> /\ lastCall.arg.runbooks # <<>>
  /\ BareHypothesis.confidence = 80
  /\ lastCall.ret.confidence = 100
  /\ Len(lastCall.ret.evidence) = 3
  /\ lastCall.ret.suggestedFix = lastCall.arg.runbooks[1].firstStep
  /\ lastCall.ret.suggestedFix # BareHypothesis.suggestedFix

\* the suggested actions of the last step that have the given type
SuggestedOfType(type) ==
  SelectSeq(lastCall.ret, LAMBDA a : a.type = type)

\* C29: the suggested actions follow four independent rules: a create-ticket
\* action (automated) is always present; a follow-runbook action (manual) is
\* present exactly when a runbook matched; an apply-fix action is present, and
\* its automated flag is true exactly when confidence > 0.8; an escalate
\* action (automated) is present exactly when confidence < 0.5.
C29_FourIndependentRules ==
  lastCall.op = "generateSuggestedActions"
    => LET confidence == lastCall.arg.hypothesis.confidence
           runbooks == lastCall.arg.runbooks
       IN /\ Len(SuggestedOfType("create_ticket")) = 1
          /\ SuggestedOfType("create_ticket")[1].automated
          /\ Len(SuggestedOfType("follow_runbook")) = (IF runbooks # <<>> THEN 1 ELSE 0)
          /\ \A i \in 1..Len(SuggestedOfType("follow_runbook")) :
               ~SuggestedOfType("follow_runbook")[i].automated
          /\ Len(SuggestedOfType("apply_fix")) = 1
          /\ \A i \in 1..Len(SuggestedOfType("apply_fix")) :
               SuggestedOfType("apply_fix")[i].automated <=> confidence > 80
          /\ Len(SuggestedOfType("escalate")) = (IF confidence < 50 THEN 1 ELSE 0)
          /\ \A i \in 1..Len(SuggestedOfType("escalate")) :
               SuggestedOfType("escalate")[i].automated


\* the entry type each action type leaves in appliedFixes
OutcomeType(type) ==
  CASE type = "apply_fix" -> "pull_request"
    [] type = "rollback" -> "rollback"
    [] type = "restart_service" -> "restart"
    [] type = "scale_service" -> "scale"
    [] type = "create_ticket" -> "jira_ticket"
    [] OTHER -> "none"

RECURSIVE IsSubsequence(_, _)
IsSubsequence(a, b) ==
  IF a = <<>> THEN TRUE
  ELSE IF b = <<>> THEN FALSE
  ELSE IF Head(a) = Head(b) THEN IsSubsequence(Tail(a), Tail(b))
  ELSE IsSubsequence(a, Tail(b))

\* the types of the suggested actions of the last call that were approved
ApprovedTypesInOrder ==
  LET suggested == IF "suggestedActions" \in DOMAIN lastCall.arg.triageResult
                   THEN lastCall.arg.triageResult["suggestedActions"] ELSE <<>>
      chosen == SelectSeq(suggested, LAMBDA a : a.type \in lastCall.arg.approvedActions)
  IN [i \in 1..Len(chosen) |-> chosen[i].type]

\* C30: applyFix executes only the suggested actions whose type is approved,
\* one at a time in the order of suggestedActions; an action whose type was
\* not approved never executes; the outcomes in appliedFixes are in that order.
C30_OnlyApprovedActionsInOrder ==
  lastCall.op = "applyFix"
    => LET executed == lastCall.effects.executed
           applied == lastCall.ret.appliedFixes
       IN /\ IsPrefix(executed, ApprovedTypesInOrder)
          /\ ~lastCall.effects.thrown => executed = ApprovedTypesInOrder
          /\ \A i \in 1..Len(executed) : executed[i] \in lastCall.arg.approvedActions
          /\ IsSubsequence([i \in 1..Len(applied) |-> applied[i].type],
                           [i \in 1..Len(executed) |-> OutcomeType(executed[i])])

\* a call in which a suggested action between two approved ones was not
\* approved: the two approved ones ran and left their outcomes in order
C30_Witness ==
  /\ lastCall.op = "applyFix"
  /\ ~lastCall.effects.thrown
  /\ lastCall.effects.executed = <<"apply_fix", "create_ticket">>
  /\ Len(lastCall.arg.triageResult["suggestedActions"]) = 3
  /\ lastCall.arg.triageResult["suggestedActions"][2].type \notin lastCall.arg.approvedActions
  /\ Len(lastCall.ret.appliedFixes) = 2
  /\ lastCall.ret.appliedFixes[1].type = "pull_request"
  /\ lastCall.ret.appliedFixes[2].type = "jira_ticket"


\* the ids of the incidents getRelatedIncidents(id) returns in the store as it is
RelatedIds(id) ==
  LET related == GetRelatedIncidents(database, id)
  IN {related[i]["id"] : i \in 1..Len(related)}

\* the pairs (a, b) for which linkIncidents(a, b, _) has stored its edge
Linked ==
  LET relations == Storage(database).relations
  IN {<<relations[i]["entity_id"], relations[i]["related_id"]>> :
        i \in {j \in 1..Len(relations) : relations[j]["related_type"] = "incident"}}

\* C39: after linkIncidents(a, b, relationship) with a # b,
\* getRelatedIncidents(a) contains b and getRelatedIncidents(b) contains a;
\* and getRelatedIncidents(id) never contains the incident id itself.
C39_LinksAreSymmetricAndIrreflexive ==
  /\ \A pair \in Linked :
       pair[1] # pair[2] => /\ pair[2] \in RelatedIds(pair[1])
                            /\ pair[1] \in RelatedIds(pair[2])
  /\ (\A pair \in Linked : pair[1] # pair[2])
       => /\ \A id \in StoredIds(database) : id \notin RelatedIds(id)
          /\ lastCall.op = "getRelatedIncidents"
               => \A i \in 1..Len(lastCall.ret) : lastCall.ret[i]["id"] # lastCall.id


\* the stored events of the incident of the last call that have the type
EventsOfType(eventType) ==
  SelectSeq(Storage(database).timeline,
            LAMBDA e : e["incident_id"] = lastCall.id /\ e["event_type"] = eventType)

\* the time of the first of them: the oldest, and among equals the one stored first
FirstTimeOfType(eventType) ==
  LET events == EventsOfType(eventType)
      first == CHOOSE i \in 1..Len(events) :
                 \A j \in 1..Len(events) :
                   \/ events[i]["created_at"] < events[j]["created_at"]
                   \/ events[i]["created_at"] = events[j]["created_at"] /\ i <= j
  IN events[first]["created_at"]

\* C35: generateReport never raises because a timeline event is missing:
\* time-to-triage is 0 when the timeline lacks an incident_created or a triaged
\* event, time-to-resolve is 0 when it lacks an incident_created or a resolved
\* event; otherwise each is the difference between the timestamps of the
\* first such events.
C35_ReportMetricsDefaultToZero ==
  (lastCall.op = "generateReport" /\ lastCall.id \in StoredIds(database))
    => /\ lastCall.threw = ""
       /\ lastCall.ret.metrics.timeToTriage =
            (IF EventsOfType(<<"incident_created">>) = <<>> \/ EventsOfType(<<"triaged">>) = <<>>
             THEN 0
             ELSE FirstTimeOfType(<<"triaged">>) - FirstTimeOfType(<<"incident_created">>))
       /\ lastCall.ret.metrics.timeToResolve =
            (IF EventsOfType(<<"incident_created">>) = <<>> \/ EventsOfType(<<"resolved">>) = <<>>
             THEN 0
             ELSE FirstTimeOfType(<<"resolved">>) - FirstTimeOfType(<<"incident_created">>))

\* a report on an incident with two triaged events at different times and no
\* resolved event: time-to-triage counts up to the first, time-to-resolve is 0
C35_Witness ==
  /\ lastCall.op = "generateReport" /\ lastCall.id \in StoredIds(database)
  /\ lastCall.threw = ""
  /\ Len(EventsOfType(<<"triaged">>)) = 2
  /\ EventsOfType(<<"triaged">>)[1]["created_at"] # EventsOfType(<<"triaged">>)[2]["created_at"]
  /\ EventsOfType(<<"resolved">>) = <<>>
  /\ lastCall.ret.metrics.timeToTriage = 1
  /\ lastCall.ret.metrics.timeToResolve = 0


\* the fingerprints of the alert tasks ts holds from position n + 1 on
EmittedAfter(ts, n) ==
  {GetS(ts[j].alert, "fingerprint") : j \in {k \in (n + 1)..Len(ts) : ts[k].kind = "alert"}}

\* C33: a poll cycle that fails (backend unreachable or a malformed answer)
\* is absorbed: the poll loop keeps running, and a firing alert reported by a
\* later successful cycle is still emitted, until stop() is called.
C33_FailedPollIsAbsorbed ==
  [][/\ \A i \in 1..Len(tasks) :
          (tasks[i].kind = "poll" /\ tasks[i].pc = "get" /\ tasks'[i].pc = "done")
            => /\ polling' = polling
               /\ \A j \in 1..Len(tasks) : j # i => tasks'[j] = tasks[j]
               /\ processedAlerts \subseteq processedAlerts'
               /\ ~tasks'[i].threw
                    => \A j \in 1..Len(tasks'[i].response) :
                         LET alert == tasks'[i].response[j]
                         IN alert.state = "firing"
                              => /\ GenerateFingerprint(alert) \in processedAlerts'
                                 /\ GenerateFingerprint(alert) \notin processedAlerts
                                      => GenerateFingerprint(alert) \in EmittedAfter(tasks', Len(tasks))
     /\ PollsStarted' > PollsStarted => polling /\ polling']_vars

\* the loop still runs after a cycle that threw on a malformed answer (it had
\* emitted the alert before the malformed one), and the cycle started after
\* it emitted the alert the failed cycle never reached
C33_Witness ==
  /\ polling
  /\ Len(tasks) = 4
  /\ tasks[1].kind = "poll" /\ tasks[1].pc = "done" /\ tasks[1].threw
  /\ tasks[1].response = <<PrometheusCPU, PrometheusNoLabels, PrometheusFiring>>
  /\ tasks[2].kind = "alert"
  /\ GetS(tasks[2].alert, "fingerprint") = GenerateFingerprint(PrometheusCPU)
  /\ tasks[3].kind = "poll" /\ tasks[3].pc = "done" /\ ~tasks[3].threw
  /\ tasks[4].kind = "alert"
  /\ GetS(tasks[4].alert, "fingerprint") = GenerateFingerprint(PrometheusFiring)


\* the fix result stored for incident id, as getIncident returns it
StoredFixResult(db, id) == GetO(GetIncident(db, id).ret, "fixResult")
StoredTriageResult(db, id) == GetO(GetIncident(db, id).ret, "triageResult")

\* task i is an approve request making its store update in this step
ApproveStores(i) ==
  /\ tasks[i].kind = "approve" /\ tasks[i].pc = "update"
  /\ tasks[i].pending # <<>> /\ Head(tasks[i].pending).call = "updateIncident"
  /\ tasks'[i] # tasks[i]

\* C31: when the verification call itself fails, remediation yields
\* verificationStatus unknown as a normal result, no error being raised, and
\* what is recorded for the incident after approval tells "could not verify"
\* (unknown) from "fix failed" (still_firing).
C31_UnknownVerificationIsRecorded ==
  [][\A i \in 1..Len(tasks) :
       /\ (tasks[i].kind = "approve" /\ tasks[i].pc = "settle" /\ tasks'[i] # tasks[i])
            => /\ tasks'[i].pc = "update"
               /\ responses' = responses
               /\ tasks'[i].result["verificationStatus"] \in VerificationStatuses
               /\ tasks'[i].result["success"]
                    <=> tasks'[i].result["verificationStatus"] = "resolved"
               /\ Head(tasks'[i].pending).updates["fixResult"] = tasks'[i].result
       /\ ApproveStores(i)
            => /\ tasks'[i].pc # "error"
               /\ StoredFixResult(database', tasks[i].incidentId)["verificationStatus"]
                    = tasks[i].result["verificationStatus"]]_vars

\* an approve request answered 200 whose verification could not be made: the
\* incident holds a fix result with verificationStatus unknown
C31_Witness ==
  \E i \in 1..Len(tasks) :
    /\ tasks[i].kind = "approve" /\ tasks[i].pc = "done"
    /\ tasks[i].result # UndefObj
    /\ tasks[i].result["verificationStatus"] = "unknown"
    /\ \E r \in 1..Len(responses) : responses[r] = [status |-> 200, route |-> "approve"]
    /\ StoredFixResult(database, tasks[i].incidentId)["verificationStatus"] = "unknown"
    /\ StatusOf(database, tasks[i].incidentId) = "failed"

\* task i is an approve request in its settle wait and task j processes the
\* alert of another incident
SettlesBeside(i, j) ==
  /\ tasks[i].kind = "approve" /\ tasks[i].pc = "settle"
  /\ tasks[j].kind = "alert" /\ tasks[j].incidentId # tasks[i].incidentId

\* C34: while remediation for incident A is in its settle wait, ingestion,
\* incident creation and triage for another incident B stay enabled and can
\* run to completion: the wait blocks none of them, B's store update after
\* triage succeeds, and B's steps leave A's remediation as it was.
C34_SettleWaitBlocksNothing ==
  /\ [](\A i \in 1..Len(tasks) :
          (tasks[i].kind = "approve" /\ tasks[i].pc = "settle")
            => /\ (Len(tasks) < MaxConcTasks /\ uuid < MaxConcAlerts)
                    => ENABLED ConcWebhookPost
               /\ \A j \in 1..Len(tasks) :
                    SettlesBeside(i, j)
                      => /\ tasks[j].pc = "create" => ENABLED StoreStep(j)
                         /\ tasks[j].pc = "triage" => ENABLED AlertTriage(j))
  /\ [][\A i, j \in 1..Len(tasks) :
          (SettlesBeside(i, j) /\ tasks'[j] # tasks[j])
            => /\ tasks'[i] = tasks[i]
               /\ tasks[j].pc = "create" => tasks'[j].pc \in {"create", "triage"}
               /\ tasks[j].pc = "triage" => tasks'[j].pc = "update"
               /\ tasks[j].pc = "update"
                    => /\ tasks'[j].pc \in {"update", "done"}
                       /\ tasks'[j].pc = "done"
                            => StatusOf(database', tasks[j].incidentId) = "triaged"]_vars

\* incident A's remediation is in its settle wait, and the alert of incident
\* B, which arrived after A's approval, has been stored and triaged
C34_Witness ==
  /\ Len(tasks) = 3
  /\ tasks[1].kind = "alert" /\ tasks[2].kind = "approve" /\ tasks[3].kind = "alert"
  /\ tasks[2].pc = "settle" /\ tasks[2].incidentId = tasks[1].incidentId
  /\ tasks[3].pc = "done" /\ tasks[3].incidentId # tasks[1].incidentId
  /\ StatusOf(database, tasks[3].incidentId) = "triaged"
  /\ StatusOf(database, tasks[1].incidentId) = "triaged"

\* C36: through the HTTP surface and the alert pipeline, under every
\* interleaving of alert processing and approve requests (an approve that
\* arrives while triage is running, two concurrent approves for one incident),
\* an incident that has reached resolved or failed never returns to a
\* non-terminal status.
C36_TerminalStatusIsKept ==
  [][\A id \in StoredIds(database) :
       StatusOf(database, id) \in TerminalStatuses
         => StatusOf(database', id) \in TerminalStatuses]_vars

\* two approve requests for one incident have both been answered: the first
\* to store left the incident resolved, the second left it failed
C36_Witness ==
  /\ Len(tasks) = 3
  /\ tasks[2].kind = "approve" /\ tasks[3].kind = "approve"
  /\ tasks[2].incidentId = tasks[3].incidentId
  /\ tasks[2].pc = "done" /\ tasks[3].pc = "done"
  /\ held[tasks[2].incidentId] = <<"open", "triaged", "resolved", "failed">>

\* C37: an approve request for an incident that exists but has no triage
\* result yet is answered with an error response and changes nothing: no
\* remediation action runs, the incident's status and attachments are
\* unchanged and no timeline event is appended.
C37_ApproveBeforeTriageChangesNothing ==
  [][\A i \in 1..Len(tasks) :
       (/\ tasks[i].kind = "approve" /\ tasks[i].pc = "get" /\ tasks'[i] # tasks[i]
        /\ HasIncident(database, tasks[i].incidentId)
        /\ ~TruthyO(StoredTriageResult(database, tasks[i].incidentId)))
         => /\ responses' = Append(responses, [status |-> 400, route |-> "approve"])
            /\ tasks'[i].pc = "done"
            /\ tasks'[i].result = UndefObj /\ tasks'[i].pending = <<>>
            /\ database' = database]_vars

\* an approve request that arrived between the creation of the incident and
\* its triage update was answered 400; the incident is still open, without a
\* fix result or a fix_applied event
C37_Witness ==
  /\ Len(tasks) >= 2
  /\ tasks[1].kind = "alert" /\ tasks[1].pc = "triage"
  /\ tasks[2].kind = "approve" /\ tasks[2].pc = "done"
  /\ tasks[2].incidentId = tasks[1].incidentId
  /\ responses[Len(responses)] = [status |-> 400, route |-> "approve"]
  /\ StatusOf(database, tasks[1].incidentId) = "open"
  /\ ~TruthyO(StoredFixResult(database, tasks[1].incidentId))
  /\ \A e \in 1..Len(Storage(database).timeline) :
       Storage(database).timeline[e]["event_type"] # <<"fix_applied">>

\* C38: in every state reachable through the HTTP surface, concurrent
\* approvals of one incident included, the status and the stored fix result
\* agree: resolved only if the stored fix result has success true, failed
\* only if a fix result is stored with success false.
C38_StatusAgreesWithFixResult ==
  \A id \in StoredIds(database) :
    /\ StatusOf(database, id) = "resolved"
         => /\ TruthyO(StoredFixResult(database, id))
            /\ StoredFixResult(database, id)["success"] = TRUE
    /\ StatusOf(database, id) = "failed"
         => /\ TruthyO(StoredFixResult(database, id))
            /\ StoredFixResult(database, id)["success"] = FALSE

\* after two approvals of one incident that ran together, the second to store
\* left status failed and a fix result with success false over the first's
C38_Witness ==
  \E id \in StoredIds(database) :
    /\ held[id] = <<"open", "triaged", "resolved", "failed">>
    /\ StoredFixResult(database, id)["success"] = FALSE
    /\ StoredFixResult(database, id)["verificationStatus"] = "still_firing"


\* the n-th accepted alert has an incident in status triaged with a triage
\* result attached
Triaged(n) ==
  /\ n <= Len(tasks)
  /\ HasIncident(database, tasks[n].incidentId)
  /\ StatusOf(database, tasks[n].incidentId) = "triaged"
  /\ TruthyO(StoredTriageResult(database, tasks[n].incidentId))

\* C32: every alert accepted by the pipeline eventually has an incident in
\* status triaged with a triage result attached, whichever of the metrics
\* query, the recent-change lookup and the notification deliveries fail; a
\* failing collaborator gives a degraded result (an empty list, a status
\* error marker) and no listener ends in its catch block.
C32_AcceptedAlertIsTriaged ==
  /\ \A n \in 1..MaxPipeAlerts : (n <= Len(tasks)) ~> Triaged(n)
  /\ [](\A n \in 1..Len(tasks) :
          /\ tasks[n].pc # "error"
          /\ tasks[n].result # UndefObj
               => /\ tasks[n].result.metrics.status \in {"success", "error"}
                  /\ tasks[n].result.recentChanges \in {<<>>, <<"commit-1">>})

\* an alert whose first notification, metrics query and change lookup all
\* failed has its incident triaged, with the error marker and the empty list
\* of changes in the stored triage result
C32_Witness ==
  \E n \in 1..Len(tasks) :
    /\ Triaged(n)
    /\ "alertSent" \in DOMAIN tasks[n] /\ ~tasks[n].alertSent
    /\ "resultSent" \in DOMAIN tasks[n] /\ ~tasks[n].resultSent
    /\ StoredTriageResult(database, tasks[n].incidentId)["metrics"]["status"] = "error"
    /\ StoredTriageResult(database, tasks[n].incidentId)["recentChanges"] = <<>>

====
